---- MODULE Spec2Model ----
(***************************************************************************)
(* Model of the artifact-writing and run-control core of the plotting      *)
(* scripts of wifi-ter-sim (scripts/plot_p2.py .. plot_p9.py).             *)
(*                                                                         *)
(* Spec: one behaviour is one run of one script's main(): the input files  *)
(* are inspected, then the artifacts of the run are exported one after the *)
(* other.  The file system is modelled path by path and write by write, so *)
(* that a reader (or a crash) can fall between any two steps.              *)
(*                                                                         *)
(* TableSpec: one behaviour is one call of one table-ingestion entry point *)
(* (the CSV readers, the column resolvers and normalizers) on one input    *)
(* drawn from a bounded family of files and tables.                        *)
(***************************************************************************)
EXTENDS Integers, Sequences, FiniteSets, TLC

\* ------------------------------------------------------------------ bounds
\* Number of artifacts one run exports (plot_p2 main exports five, the
\* others a data-dependent number; every artifact goes through the same code).
NArt == 2
\* Number of pieces in which one payload reaches the disk.
NChunks == 2
\* Largest max_retries a caller passes (the default, 3, is among them).
MaxRetriesArg == 3

\* ------------------------------------------------------- program constants
\* retry_sleep_s = 0.4, in milliseconds.
RetrySleepMs == 400

\* ------------------------------------------------------------------ scripts
Scripts == {"p2", "p3", "p4", "p5", "p9"}
\* Scripts whose writer is save_figure_safe (temp file + rename, retries).
RetryScripts == {"p2", "p3"}
\* Scripts whose writer is save_fig_safe (fig.write_html / fig.write_image).
PlainScripts == {"p4", "p5"}

TableState == {"missing", "zero", "header", "rows"}

\* ------------------------------------------------------------- file system
PlotDir == "plots"
Formats == {"html", "png", "txt"}
Target(a, f) == [dir |-> PlotDir, stem |-> a, ext |-> f]
Targets == {Target(a, f) : a \in 1..NArt, f \in Formats}

Absent == [gen |-> "none", len |-> 0]
OldPayload == [gen |-> "old", len |-> NChunks]
NewPayload == [gen |-> "new", len |-> NChunks]
Partial(c) == c.gen # "none" /\ c.len < NChunks
NoTmp == [dir |-> "none", c |-> Absent]

VARIABLES
    script,       \* which script's main() runs
    strict,       \* --strict-png
    kaleido,      \* TRUE iff "import kaleido" succeeds
    max_retries,  \* max_retries of save_figure_safe
    inp,          \* state of the input files under raw/
    prev,         \* content every target had before the run
    fs,           \* content of every target path
    tmp,          \* the temporary file of the write in progress
    mpc,          \* position of main(): "start", "saving", "exited"
    exit,         \* process exit status, -1 while running
    art,          \* index of the artifact being exported, 0 before the first
    spc,          \* position inside the writer call
    wpc,          \* position inside the file write
    wtarget,      \* path the file write is for
    events,       \* render attempts and sleeps of the current call
    htmlOut,      \* outcome of the HTML format of the current call
    pngOut,       \* outcome of the PNG format of the current call
    raisedKind,   \* which error the current call raised
    tried,        \* <<artifact, format>> pairs whose export was started
    failed,       \* <<artifact, format>> pairs whose export ended failed
    log,          \* what the run printed
    strictFail,   \* a writer call raised its strict-mode error
    crashed       \* the process was killed

runVars == <<script, strict, kaleido, max_retries, inp, prev, fs, tmp, mpc, exit,
             art, spc, wpc, wtarget, events, htmlOut, pngOut, raisedKind, tried,
             failed, log, strictFail, crashed>>

VARIABLES
    tfn,          \* the table-ingestion entry point that is called
    tin,          \* its input: a file, or a table with the names to resolve
    legacy,       \* TRUE iff the installed pandas predates the 1.4 python parser
    tpc,          \* position inside the call
    df,           \* the table being built
    tout,         \* outcome of the call: what it returned or raised
    tlog,         \* what the call printed
    tcode         \* exit status of plot_p3 main, -1 while it runs

tblVars == <<tfn, tin, legacy, tpc, df, tout, tlog, tcode>>

VARIABLES
    callers,      \* per concurrent save_figure_safe call: its position and locals
    dirents,      \* the output directory: file name -> inode number, 0 if absent
    inodes        \* inode number -> the chunks the file holds, each tagged by its writer

concVars == <<callers, dirents, inodes>>

vars == <<runVars, tblVars, concVars>>

cfgVars == <<script, strict, kaleido, max_retries, inp, prev>>
callVars == <<spc, events, htmlOut, pngOut, raisedKind>>
writeVars == <<wpc, wtarget, tmp>>

\* ------------------------------------------------------------------ inputs
\* Input files each script looks at: the raw directory, a first table (t1) and
\* a second one (t2), each with its per-transport fallback files (t1fb, t2fb;
\* only plot_p2 has them).  "zero" is a zero-length file, "header" a file with
\* a header line and no data row.  For plot_p5 and plot_p9 only missing,
\* zero-length and populated files are enumerated.
Inputs(s) ==
    CASE s = "p2" -> [raw : BOOLEAN, t1 : TableState, t1fb : {"missing", "rows"},
                      t2 : TableState, t2fb : {"missing", "rows"}]
      [] s = "p3" -> [raw : {TRUE}, t1 : TableState, t1fb : {"missing"},
                      t2 : {"rows"}, t2fb : {"missing"}]
      [] s = "p4" -> [raw : {TRUE}, t1 : TableState, t1fb : {"missing"},
                      t2 : {"rows"}, t2fb : {"missing"}]
      [] s = "p5" -> [raw : {TRUE}, t1 : {"missing", "zero", "rows"}, t1fb : {"missing"},
                      t2 : {"missing", "zero", "rows"}, t2fb : {"missing"}]
      [] s = "p9" -> [raw : {TRUE}, t1 : {"missing", "zero", "rows"}, t1fb : {"missing"},
                      t2 : {"missing", "rows"}, t2fb : {"missing"}]

\* No two calls run side by side in Spec, TableSpec and StatSpec.
ConcIdle ==
    /\ callers = <<>>
    /\ dirents = <<>>
    /\ inodes = <<>>

\* No table call is exercised during a run of Spec.
TblIdle ==
    /\ tfn = "none"
    /\ tin = "none"
    /\ legacy = FALSE
    /\ tpc = "idle"
    /\ df = "none"
    /\ tout = "none"
    /\ tlog = <<>>
    /\ tcode = -1

Init ==
    /\ TblIdle
    /\ ConcIdle
    /\ script \in Scripts
    /\ strict \in BOOLEAN
    /\ kaleido \in BOOLEAN
    /\ max_retries \in 0..MaxRetriesArg
    /\ inp \in Inputs(script)
    /\ prev \in {Absent, OldPayload}
    /\ fs = [p \in Targets |-> prev]
    /\ tmp = NoTmp
    /\ mpc = "start"
    /\ exit = -1
    /\ art = 0
    /\ spc = "idle"
    /\ wpc = "idle"
    /\ wtarget = Target(1, "html")
    /\ events = <<>>
    /\ htmlOut = "none"
    /\ pngOut = "none"
    /\ raisedKind = "none"
    /\ tried = {}
    /\ failed = {}
    /\ log = <<>>
    /\ strictFail = FALSE
    /\ crashed = FALSE

\* ------------------------------------------------------------ main, inputs
\* _read_csv_optional: None for a missing or zero-length file, else the frame.
_read_csv_optional(st) == IF st \in {"missing", "zero"} THEN "None" ELSE st

\* load_p2_data for one kind of table: the consolidated file, else the
\* per-transport files, else an empty frame.  Result: "rows" or "empty".
load_p2_data(all, fb) ==
    LET t == _read_csv_optional(all) IN
    IF t = "None"
    THEN IF _read_csv_optional(fb) = "None" THEN "empty" ELSE "rows"
    ELSE IF t = "header" THEN "empty" ELSE "rows"

\* What main() does with its inputs before the first export: the exit status
\* it ends with, or -1 when it goes on to export.  An exception nobody catches
\* ends the process with status 1.
MainP2(i) ==
    IF ~i.raw THEN 2
    ELSE IF load_p2_data(i.t1, i.t1fb) = "empty" THEN 3
    ELSE IF load_p2_data(i.t2, i.t2fb) = "empty" THEN 4
    ELSE -1

MainP3(i) ==
    CASE i.t1 = "missing" -> 2
      [] i.t1 = "zero"    -> 1      \* read_sweep_csv raises FileNotFoundError
      [] i.t1 = "header"  -> 1      \* aggregate_by_distance fails on no groups
      [] OTHER            -> -1

MainP4(i) ==
    CASE i.t1 = "missing" -> 2
      [] i.t1 = "zero"    -> 1      \* pd.read_csv raises
      [] i.t1 = "header"  -> 1      \* fig_goodput_vs_width raises ValueError
      [] OTHER            -> -1

MainP5(i) ==
    IF i.t1 = "missing" THEN 2
    ELSE IF i.t2 = "missing" THEN 3
    ELSE IF i.t1 = "zero" \/ i.t2 = "zero" THEN 1   \* pd.read_csv raises
    ELSE -1

\* read_csv_if_exists: None for a missing or unreadable file.
MainP9(i) ==
    IF i.t1 \in {"missing", "zero"} /\ i.t2 \in {"missing", "zero"} THEN 2 ELSE -1

MainInputs(s, i) ==
    CASE s = "p2" -> MainP2(i)
      [] s = "p3" -> MainP3(i)
      [] s = "p4" -> MainP4(i)
      [] s = "p5" -> MainP5(i)
      [] s = "p9" -> MainP9(i)

\* The heatmap exports of plot_p4 main, its last artifacts, run inside
\* "try: ... except Exception: pass".
Guarded(s, a) == s = "p4" /\ a = NArt

LogEntry(a, k, where) == [art |-> a, kind |-> k, at |-> where]

\* Entry of one writer call for artifact a.
BeginCall(a) ==
    /\ art' = a
    /\ spc' = IF script = "p9" THEN "fig" ELSE "html"
    /\ events' = <<>>
    /\ htmlOut' = "none"
    /\ pngOut' = "none"
    /\ raisedKind' = "none"

\* main() up to its first export.
MainStart ==
    /\ mpc = "start"
    /\ LET code == MainInputs(script, inp) IN
       IF code # -1
       THEN /\ mpc' = "exited"
            /\ exit' = code
            /\ UNCHANGED <<art, callVars>>
       ELSE /\ mpc' = "saving"
            /\ exit' = -1
            /\ BeginCall(1)
    /\ UNCHANGED <<concVars, tblVars, cfgVars, failed, fs, writeVars, tried, log, strictFail, crashed>>

\* A writer call returned: main() goes on to the next artifact, or prints its
\* closing line and returns 0.
CallReturn ==
    /\ mpc = "saving"
    /\ spc = "ret"
    /\ IF art < NArt
       THEN /\ BeginCall(art + 1)
            /\ UNCHANGED <<mpc, exit, log>>
       ELSE /\ mpc' = "exited"
            /\ exit' = 0
            /\ log' = Append(log, LogEntry(0, "ok", "end"))
            /\ UNCHANGED <<art, callVars>>
    /\ UNCHANGED <<concVars, tblVars, cfgVars, failed, fs, writeVars, tried, strictFail, crashed>>

\* A writer call raised: the exception leaves main() (status 1) unless the
\* call sits in the guarded heatmap block, which swallows it and lets main()
\* print its closing line and return 0.
CallRaise ==
    /\ mpc = "saving"
    /\ spc = "raised"
    /\ mpc' = "exited"
    /\ IF Guarded(script, art)
       THEN /\ exit' = 0
            /\ log' = Append(log, LogEntry(0, "ok", "end"))
       ELSE /\ exit' = 1
            /\ UNCHANGED log
    /\ UNCHANGED <<concVars, tblVars, cfgVars, failed, fs, writeVars, art, callVars, tried, strictFail, crashed>>

\* The process is killed (or the machine stops) between two steps of a run;
\* the files stay as they are.
Crash ==
    /\ mpc # "exited"
    /\ mpc' = "exited"
    /\ exit' = 137
    /\ crashed' = TRUE
    /\ UNCHANGED <<concVars, tblVars, cfgVars, failed, fs, writeVars, art, callVars, tried, log, strictFail>>

\* ------------------------------------------------ atomic write (p2, p3)
\* NamedTemporaryFile(dir=str(path.parent), ...): directory of the temp file.
TempDirOf(path) == path.dir

StartAtomicWrite(path) ==
    /\ wpc' = "mkdir"
    /\ wtarget' = path
    /\ UNCHANGED tmp

\* path.parent.mkdir(parents=True, exist_ok=True)
AtomicMkdir ==
    /\ script \in RetryScripts
    /\ mpc = "saving"
    /\ wpc = "mkdir"
    /\ wpc' = "create"
    /\ UNCHANGED <<concVars, tblVars, cfgVars, failed, fs, tmp, wtarget, mpc, exit, art, callVars, tried, log,
                   strictFail, crashed>>

\* NamedTemporaryFile(...) creates an empty file, or raises OSError.
AtomicCreate ==
    /\ script \in RetryScripts
    /\ mpc = "saving"
    /\ wpc = "create"
    /\ \E ok \in BOOLEAN :
         IF ok
         THEN /\ tmp' = [dir |-> TempDirOf(wtarget), c |-> [gen |-> "new", len |-> 0]]
              /\ wpc' = "write"
         ELSE /\ tmp' = NoTmp
              /\ wpc' = "err"
    /\ UNCHANGED <<concVars, tblVars, cfgVars, failed, fs, wtarget, mpc, exit, art, callVars, tried, log,
                   strictFail, crashed>>

\* tmp.write(data): the payload reaches the temp file piece by piece; an
\* OSError leaves the with-block, which closes the file and leaves it where it
\* is (delete=False): nothing reads it again, so it is no longer tracked.
AtomicWriteChunk ==
    /\ script \in RetryScripts
    /\ mpc = "saving"
    /\ wpc = "write"
    /\ tmp.c.len < NChunks
    /\ \E ok \in BOOLEAN :
         IF ok
         THEN /\ tmp' = [tmp EXCEPT !.c.len = @ + 1]
              /\ wpc' = "write"
         ELSE /\ tmp' = NoTmp
              /\ wpc' = "err"
    /\ UNCHANGED <<concVars, tblVars, cfgVars, failed, fs, wtarget, mpc, exit, art, callVars, tried, log,
                   strictFail, crashed>>

\* End of the with-block: the temp file is closed.
AtomicClose ==
    /\ script \in RetryScripts
    /\ mpc = "saving"
    /\ wpc = "write"
    /\ tmp.c.len = NChunks
    /\ wpc' = "replace"
    /\ UNCHANGED <<concVars, tblVars, cfgVars, failed, fs, tmp, wtarget, mpc, exit, art, callVars, tried, log,
                   strictFail, crashed>>

\* A rename of a file that is still being written (a plausible slip: replace
\* inside the with-block).
AtomicReplaceEarly ==
    /\ script \in RetryScripts
    /\ mpc = "saving"
    /\ wpc \in {"write", "replace"}
    /\ fs' = [fs EXCEPT ![wtarget] = tmp.c]
    /\ tmp' = NoTmp
    /\ wpc' = "done"
    /\ UNCHANGED <<concVars, tblVars, cfgVars, failed, wtarget, mpc, exit, art, callVars, tried, log,
                   strictFail, crashed>>

\* Path(tmp.name).replace(path): one rename puts the closed temp file in the
\* target's place.
AtomicReplace ==
    /\ script \in RetryScripts
    /\ mpc = "saving"
    /\ wpc = "replace"
    /\ fs' = [fs EXCEPT ![wtarget] = tmp.c]
    /\ tmp' = NoTmp
    /\ wpc' = "done"
    /\ UNCHANGED <<concVars, tblVars, cfgVars, failed, wtarget, mpc, exit, art, callVars, tried, log,
                   strictFail, crashed>>

\* ------------------------------------- write in place (p4, p5, p6, p8, p9)
StartDirectWrite(path) ==
    /\ wpc' = "dopen"
    /\ wtarget' = path
    /\ UNCHANGED tmp

\* open(path, "w"): the target is created or truncated, or OSError.
DirectOpen ==
    /\ script \notin RetryScripts
    /\ mpc = "saving"
    /\ wpc = "dopen"
    /\ \E ok \in BOOLEAN :
         IF ok
         THEN /\ fs' = [fs EXCEPT ![wtarget] = [gen |-> "new", len |-> 0]]
              /\ wpc' = "dwrite"
         ELSE /\ UNCHANGED fs
              /\ wpc' = "err"
    /\ UNCHANGED <<concVars, tblVars, cfgVars, failed, tmp, wtarget, mpc, exit, art, callVars, tried, log,
                   strictFail, crashed>>

\* f.write(...): the payload reaches the target itself piece by piece.
DirectWriteChunk ==
    /\ script \notin RetryScripts
    /\ mpc = "saving"
    /\ wpc = "dwrite"
    /\ fs[wtarget].len < NChunks
    /\ \E ok \in BOOLEAN :
         IF ok
         THEN /\ fs' = [fs EXCEPT ![wtarget].len = @ + 1]
              /\ wpc' = "dwrite"
         ELSE /\ UNCHANGED fs
              /\ wpc' = "err"
    /\ UNCHANGED <<concVars, tblVars, cfgVars, failed, tmp, wtarget, mpc, exit, art, callVars, tried, log,
                   strictFail, crashed>>

DirectClose ==
    /\ script \notin RetryScripts
    /\ mpc = "saving"
    /\ wpc = "dwrite"
    /\ fs[wtarget].len = NChunks
    /\ wpc' = "done"
    /\ UNCHANGED <<concVars, tblVars, cfgVars, failed, fs, tmp, wtarget, mpc, exit, art, callVars, tried, log,
                   strictFail, crashed>>

\* -------------------------------------------- save_figure_safe (p2, p3)
Attempt == [k |-> "attempt", ms |-> 0]
Sleep(ms) == [k |-> "sleep", ms |-> ms]
NumAttempts(ev) == Cardinality({i \in DOMAIN ev : ev[i].k = "attempt"})
NumSleeps(ev) == Cardinality({i \in DOMAIN ev : ev[i].k = "sleep"})

\* The retry loop runs one more attempt while fewer than max_retries were
\* made ("for attempt in range(1, max_retries + 1)", "for _ in range(max_retries)").
LoopContinuesOffByOne(n, max) == n <= max
LoopContinues(n, max) == n < max

\* What follows a written PNG: "break" in plot_p2, "return" in plot_p3; both
\* end the call.
AfterPngWrittenNoBreak(s) == "png_loop"
AfterPngWritten(s) == "ret"

\* "if strict_png: raise RuntimeError(msg)"
RaisesWhenFailedNever(st) == FALSE
RaisesWhenFailed(st) == st

\* plot_p2: "except Exception as e: print([WARN] HTML save failed ...)", then
\* on to the PNG.
HtmlFailP2 ==
    /\ spc' = "png_import"
    /\ log' = Append(log, LogEntry(art, "html_warn", "call"))
    /\ UNCHANGED raisedKind

\* plot_p3: no try around the HTML export; the exception leaves the call.
HtmlFailP3 ==
    /\ spc' = "raised"
    /\ raisedKind' = "html"
    /\ UNCHANGED log

\* The HTML export failed (fig.to_html or _atomic_write_text raised).
HtmlFail ==
    /\ htmlOut' = "failed"
    /\ failed' = failed \cup {<<art, "html">>}
    /\ IF script = "p2" THEN HtmlFailP2 ELSE HtmlFailP3

\* fig.to_html(...), then _atomic_write_text(html_path, html_str).
HtmlRender ==
    /\ script \in RetryScripts
    /\ mpc = "saving"
    /\ spc = "html"
    /\ tried' = tried \cup {<<art, "html">>}
    /\ \E ok \in BOOLEAN :
         IF ok
         THEN /\ spc' = "html_write"
              /\ StartAtomicWrite(Target(art, "html"))
              /\ UNCHANGED <<failed, htmlOut, raisedKind, log>>
         ELSE /\ HtmlFail
              /\ UNCHANGED writeVars
    /\ UNCHANGED <<concVars, tblVars, cfgVars, fs, mpc, exit, art, events, pngOut, strictFail, crashed>>

\* _atomic_write_text returned or raised.
HtmlWriteDone ==
    /\ script \in RetryScripts
    /\ mpc = "saving"
    /\ spc = "html_write"
    /\ wpc \in {"done", "err"}
    /\ wpc' = "idle"
    /\ IF wpc = "done"
       THEN /\ htmlOut' = "written"
            /\ spc' = "png_import"
            /\ UNCHANGED <<failed, raisedKind, log>>
       ELSE HtmlFail
    /\ UNCHANGED <<concVars, tblVars, cfgVars, fs, tmp, wtarget, mpc, exit, art, events, pngOut, tried,
                   strictFail, crashed>>

\* Non-strict give-up in plot_p2: "print(msg, file=sys.stderr)".
NonStrictP2(why) == log' = Append(log, LogEntry(art, why, "call"))

\* Non-strict give-up in plot_p3: msg is built and dropped, nothing is printed.
NonStrictP3(why) == log' = log

\* The PNG is given up for the reason why ("exhausted": the for-loop ran out;
\* "unavailable": ImportError).  strict_png raises RuntimeError; otherwise the
\* call returns.
PngGiveUp(why) ==
    /\ pngOut' = why
    /\ failed' = failed \cup {<<art, "png">>}
    /\ IF RaisesWhenFailed(strict)
       THEN /\ spc' = "raised"
            /\ raisedKind' = why
            /\ strictFail' = TRUE
            /\ UNCHANGED log
       ELSE /\ spc' = "ret"
            /\ IF script = "p2" THEN NonStrictP2(why) ELSE NonStrictP3(why)
            /\ UNCHANGED <<raisedKind, strictFail>>

\* "import kaleido", before the retry loop and outside its try.
PngImport ==
    /\ script \in RetryScripts
    /\ mpc = "saving"
    /\ spc = "png_import"
    /\ tried' = tried \cup {<<art, "png">>}
    /\ IF kaleido
       THEN /\ spc' = "png_loop"
            /\ UNCHANGED <<failed, pngOut, raisedKind, strictFail, log>>
       ELSE PngGiveUp("unavailable")
    /\ UNCHANGED <<concVars, tblVars, cfgVars, fs, writeVars, mpc, exit, art, events, htmlOut, crashed>>

\* One pass of the loop body: pio.to_image(...), then _atomic_write_bytes.
PngAttempt ==
    /\ script \in RetryScripts
    /\ mpc = "saving"
    /\ spc = "png_loop"
    /\ LoopContinues(NumAttempts(events), max_retries)
    /\ events' = Append(events, Attempt)
    /\ \E ok \in BOOLEAN :
         IF ok
         THEN /\ spc' = "png_write"
              /\ StartAtomicWrite(Target(art, "png"))
         ELSE /\ spc' = "png_sleep"
              /\ UNCHANGED writeVars
    /\ UNCHANGED <<concVars, tblVars, cfgVars, failed, fs, mpc, exit, art, htmlOut, pngOut, raisedKind, tried, log,
                   strictFail, crashed>>

\* The loop ran out without a written PNG.
PngExhausted ==
    /\ script \in RetryScripts
    /\ mpc = "saving"
    /\ spc = "png_loop"
    /\ ~LoopContinues(NumAttempts(events), max_retries)
    /\ PngGiveUp("exhausted")
    /\ UNCHANGED <<concVars, tblVars, cfgVars, fs, writeVars, mpc, exit, art, events, htmlOut, tried, crashed>>

\* _atomic_write_bytes returned or raised (the raise is caught by the loop's
\* "except Exception").
PngWriteDone ==
    /\ script \in RetryScripts
    /\ mpc = "saving"
    /\ spc = "png_write"
    /\ wpc \in {"done", "err"}
    /\ wpc' = "idle"
    /\ IF wpc = "done"
       THEN /\ pngOut' = "written"
            /\ spc' = AfterPngWritten(script)
       ELSE /\ spc' = "png_sleep"
            /\ UNCHANGED pngOut
    /\ UNCHANGED <<concVars, tblVars, cfgVars, failed, fs, tmp, wtarget, mpc, exit, art, events, htmlOut, raisedKind,
                   tried, log, strictFail, crashed>>

\* "except Exception as ex: last_exc = ex; time.sleep(retry_sleep_s)"
PngSleep ==
    /\ script \in RetryScripts
    /\ mpc = "saving"
    /\ spc = "png_sleep"
    /\ events' = Append(events, Sleep(RetrySleepMs))
    /\ spc' = "png_loop"
    /\ UNCHANGED <<concVars, tblVars, cfgVars, failed, fs, writeVars, mpc, exit, art, htmlOut, pngOut, raisedKind,
                   tried, log, strictFail, crashed>>

\* ------------------------------------------------ save_fig_safe (p4, p5)
\* fig.write_html(...) is not inside any try: its failure leaves the call.
PlainHtmlFail ==
    /\ htmlOut' = "failed"
    /\ failed' = failed \cup {<<art, "html">>}
    /\ failed' = failed \cup {<<art, "html">>}
    /\ spc' = "raised"
    /\ raisedKind' = "html"

PlainHtml ==
    /\ script \in PlainScripts
    /\ mpc = "saving"
    /\ spc = "html"
    /\ tried' = tried \cup {<<art, "html">>}
    /\ \E ok \in BOOLEAN :
         IF ok
         THEN /\ spc' = "html_write"
              /\ StartDirectWrite(Target(art, "html"))
              /\ UNCHANGED <<failed, htmlOut, raisedKind>>
         ELSE /\ PlainHtmlFail
              /\ UNCHANGED writeVars
    /\ UNCHANGED <<concVars, tblVars, cfgVars, fs, mpc, exit, art, events, pngOut, log, strictFail, crashed>>

PlainHtmlDone ==
    /\ script \in PlainScripts
    /\ mpc = "saving"
    /\ spc = "html_write"
    /\ wpc \in {"done", "err"}
    /\ wpc' = "idle"
    /\ IF wpc = "done"
       THEN /\ htmlOut' = "written"
            /\ spc' = "png"
            /\ UNCHANGED <<failed, raisedKind>>
       ELSE PlainHtmlFail
    /\ UNCHANGED <<concVars, tblVars, cfgVars, fs, tmp, wtarget, mpc, exit, art, events, pngOut, tried, log,
                   strictFail, crashed>>

\* "except Exception as e: if strict_png: raise RuntimeError(...)"; otherwise
\* the error is dropped.
PlainPngFail ==
    /\ pngOut' = "failed"
    /\ failed' = failed \cup {<<art, "png">>}
    /\ IF strict
       THEN /\ spc' = "raised"
            /\ raisedKind' = "failed"
            /\ strictFail' = TRUE
       ELSE /\ spc' = "ret"
            /\ UNCHANGED <<raisedKind, strictFail>>

\* fig.write_image(...): renders through kaleido (and fails without it), then
\* writes the file.
PlainPng ==
    /\ script \in PlainScripts
    /\ mpc = "saving"
    /\ spc = "png"
    /\ tried' = tried \cup {<<art, "png">>}
    /\ events' = Append(events, Attempt)
    /\ \E ok \in BOOLEAN :
         IF ok /\ kaleido
         THEN /\ spc' = "png_write"
              /\ StartDirectWrite(Target(art, "png"))
              /\ UNCHANGED <<failed, pngOut, raisedKind, strictFail>>
         ELSE /\ PlainPngFail
              /\ UNCHANGED writeVars
    /\ UNCHANGED <<concVars, tblVars, cfgVars, fs, mpc, exit, art, htmlOut, log, crashed>>

PlainPngDone ==
    /\ script \in PlainScripts
    /\ mpc = "saving"
    /\ spc = "png_write"
    /\ wpc \in {"done", "err"}
    /\ wpc' = "idle"
    /\ IF wpc = "done"
       THEN /\ pngOut' = "written"
            /\ spc' = "ret"
            /\ UNCHANGED <<failed, raisedKind, strictFail>>
       ELSE PlainPngFail
    /\ UNCHANGED <<concVars, tblVars, cfgVars, fs, tmp, wtarget, mpc, exit, art, events, htmlOut, tried, log,
                   crashed>>

\* ------------------------------------------------------ plot_p9 writers
\* The first file of a run is the summary text (open(summary_path, "w") and a
\* series of f.write), the others are figures (savefig).
Ext9(a) == IF a = 1 THEN "txt" ELSE "png"

P9Write ==
    /\ script = "p9"
    /\ mpc = "saving"
    /\ spc = "fig"
    /\ tried' = tried \cup {<<art, Ext9(art)>>}
    /\ spc' = "fig_write"
    /\ StartDirectWrite(Target(art, Ext9(art)))
    /\ UNCHANGED <<concVars, tblVars, cfgVars, failed, fs, mpc, exit, art, events, htmlOut, pngOut, raisedKind, log,
                   strictFail, crashed>>

P9WriteDone ==
    /\ script = "p9"
    /\ mpc = "saving"
    /\ spc = "fig_write"
    /\ wpc \in {"done", "err"}
    /\ wpc' = "idle"
    /\ IF wpc = "done"
       THEN /\ spc' = "ret"
            /\ UNCHANGED raisedKind
       ELSE /\ spc' = "raised"
            /\ raisedKind' = "io"
    /\ UNCHANGED <<concVars, tblVars, cfgVars, failed, fs, tmp, wtarget, mpc, exit, art, events, htmlOut, pngOut,
                   tried, log, strictFail, crashed>>

Next ==
    \/ MainStart
    \/ CallReturn
    \/ CallRaise
    \/ Crash
    \/ AtomicMkdir
    \/ AtomicCreate
    \/ AtomicWriteChunk
    \/ AtomicClose
    \/ AtomicReplace
    \/ DirectOpen
    \/ DirectWriteChunk
    \/ DirectClose
    \/ HtmlRender
    \/ HtmlWriteDone
    \/ PngImport
    \/ PngAttempt
    \/ PngExhausted
    \/ PngWriteDone
    \/ PngSleep
    \/ PlainHtml
    \/ PlainHtmlDone
    \/ PlainPng
    \/ PlainPngDone
    \/ P9Write
    \/ P9WriteDone

Spec == Init /\ [][Next]_vars

\* =================================================================== claims
CallEnded == spc \in {"ret", "raised"}
Logged(a, k, where) == \E i \in DOMAIN log : log[i] = LogEntry(a, k, where)

\* C1: in _atomic_write_bytes / _atomic_write_text (plot_p2, plot_p3) the
\* payload goes to a temporary file in the target's own directory and is renamed
\* over the target only once it is complete and closed; hence at every step, a
\* crash at any step included, each target holds its previous content, nothing,
\* or the complete new payload, never a truncated one.
C1_AtomicWriteNeverTruncates ==
    script \in RetryScripts =>
        /\ \A p \in Targets : fs[p] \in {prev, NewPayload}
        /\ tmp # NoTmp => tmp.dir = wtarget.dir
        /\ wpc = "done" => fs[wtarget] = NewPayload

\* C1 witness: the process was killed while the temp file held part of the
\* payload, and the target still has its previous content.
C1_Witness ==
    /\ script \in RetryScripts
    /\ crashed
    /\ wpc = "write"
    /\ tmp # NoTmp
    /\ Partial(tmp.c)
    /\ prev = OldPayload
    /\ fs[wtarget] = OldPayload

\* C2: every artifact file of every writer of the repository is written by
\* write-to-temp-then-rename: no target under the plots directory ever holds a
\* partially written payload.
C2_NoPartialTarget == \A p \in Targets : ~Partial(fs[p])

\* C3: in one save_figure_safe call each format is exported independently:
\* whichever of HTML and PNG fails, the other is still attempted, and a format
\* whose own export succeeds has its file written.
C3_FormatsIndependent ==
    (script \in RetryScripts /\ CallEnded) =>
        /\ <<art, "html">> \in tried
        /\ <<art, "png">> \in tried
        /\ htmlOut = "written" => fs[Target(art, "html")] = NewPayload
        /\ pngOut = "written" => fs[Target(art, "png")] = NewPayload

\* C4: the PNG export of a save_figure_safe call is attempted at most
\* max_retries times; it is declared failed only after exactly max_retries
\* attempts; consecutive attempts are separated by one sleep of retry_sleep_s.
C4_RetryBound ==
    script \in RetryScripts =>
        /\ NumAttempts(events) <= max_retries
        /\ pngOut = "exhausted" => NumAttempts(events) = max_retries
        /\ \A i \in 1..(Len(events) - 1) :
              /\ events[i] = Attempt => events[i + 1] = Sleep(RetrySleepMs)
              /\ events[i].k = "sleep" => events[i + 1] = Attempt

\* C4 witness: a call gave the PNG up after all of two or more attempts.
C4_Witness ==
    /\ script \in RetryScripts
    /\ CallEnded
    /\ pngOut = "exhausted"
    /\ max_retries >= 2
    /\ NumAttempts(events) = max_retries
    /\ NumSleeps(events) = max_retries

\* C5: if the first k < max_retries PNG attempts of a call fail and attempt
\* k+1 succeeds, the call makes exactly k+1 attempts, writes the PNG, makes no
\* attempt after the success and returns without raising, strict or not.
C5_SuccessEndsRetries ==
    (script \in RetryScripts /\ pngOut = "written") =>
        /\ spc = "ret"
        /\ raisedKind = "none"
        /\ ~strictFail
        /\ NumAttempts(events) = NumSleeps(events) + 1
        /\ NumAttempts(events) <= max_retries
        /\ Len(events) = 2 * NumSleeps(events) + 1
        /\ events[Len(events)] = Attempt
        /\ fs[Target(art, "png")] = NewPayload
        /\ ~(<<art, "png">> \in failed)

\* C5 witness: two failed attempts, the third succeeded, strict mode.
C5_Witness ==
    /\ script \in RetryScripts
    /\ strict
    /\ pngOut = "written"
    /\ spc = "ret"
    /\ max_retries = 3
    /\ NumAttempts(events) = 3
    /\ NumSleeps(events) = 2

\* Which PNG outcome the caller of a writer call gets to see: the error it
\* raised, else the line it printed, else nothing.
PngReport ==
    IF spc = "raised" THEN raisedKind
    ELSE IF Logged(art, "unavailable", "call") THEN "unavailable"
    ELSE IF Logged(art, "exhausted", "call") THEN "exhausted"
    ELSE "nothing"

\* C6: when kaleido is unavailable, save_figure_safe makes no render attempt
\* and no retry sleep, and reports the backend-unavailable outcome, not the
\* retries-exhausted one.
C6_BackendUnavailable ==
    (script \in RetryScripts /\ ~kaleido /\ CallEnded /\ <<art, "png">> \in tried) =>
        /\ NumAttempts(events) = 0
        /\ NumSleeps(events) = 0
        /\ pngOut = "unavailable"
        /\ PngReport = "unavailable"

\* C7: with strict_png, whenever the PNG of a writer call ends failed (retries
\* exhausted, or backend unavailable) the call raises instead of returning.
C7_StrictRaises ==
    (strict /\ script \in (RetryScripts \cup PlainScripts)
            /\ pngOut \in {"exhausted", "unavailable", "failed"}) =>
        /\ spc = "raised"
        /\ raisedKind = pngOut
        /\ strictFail

\* C7 witness: a strict call raised after exhausting at least one attempt, and
\* another one because the backend is missing.
C7_Witness ==
    /\ strict
    /\ script \in RetryScripts
    /\ spc = "raised"
    /\ \/ pngOut = "exhausted" /\ NumAttempts(events) >= 1
       \/ pngOut = "unavailable"
    /\ art = NArt

\* C8: without strict_png a permanently failing PNG export never raises: the
\* failure is reported as a logged warning, and the HTML that was written stays
\* written.
C8_NonStrictWarns ==
    (script \in RetryScripts /\ ~strict /\ pngOut = "exhausted") =>
        /\ spc = "ret"
        /\ Logged(art, "exhausted", "call")
        /\ htmlOut = "written" => fs[Target(art, "html")] = NewPayload

\* C9: in a non-strict run of main every artifact of the run is attempted,
\* whatever formats failed before, and the failures are reported once, at the
\* end of the run.
C9_BatchNotInterrupted ==
    (script \in RetryScripts /\ ~strict /\ mpc = "exited" /\ ~crashed /\ art > 0) =>
        /\ \A a \in 1..NArt : <<a, "html">> \in tried /\ <<a, "png">> \in tried
        /\ \A i \in DOMAIN log : log[i].at = "end"
        /\ \A x \in failed : \E i \in DOMAIN log : log[i].art = x[1] /\ log[i].at = "end"

\* A required input table is missing or empty.
InputBad(s, i) ==
    CASE s = "p2" -> \/ ~i.raw
                     \/ (i.t1 # "rows" /\ i.t1fb # "rows")
                     \/ (i.t2 # "rows" /\ i.t2fb # "rows")
      [] s = "p3" -> i.t1 # "rows"
      [] s = "p4" -> i.t1 # "rows"
      [] s = "p5" -> i.t1 # "rows" \/ i.t2 # "rows"
      [] s = "p9" -> i.t1 # "rows" /\ i.t2 # "rows"

\* C10: a run ends with a non-zero status whenever a required input table is
\* missing or empty and whenever a strict-mode export failure occurred; it ends
\* with status 0 only if neither happened.
C10_ExitStatus ==
    (mpc = "exited" /\ ~crashed) =>
        /\ InputBad(script, inp) => exit # 0
        /\ strictFail => exit # 0
        /\ exit = 0 => ~InputBad(script, inp) /\ ~strictFail

\* ======================================================== table ingestion
\* ------------------------------------------------------------------ bounds
\* Largest number of data rows of an input file or table.
MaxRows == 2

\* ----------------------------------------------------------------- strings
\* Python's "s in t" on strings.
Contains(s, t) == \E i \in 1..(Len(t) - Len(s) + 1) : SubSeq(t, i, i + Len(s) - 1) = s

\* ",".join(cells): one line of a CSV file as text.
RECURSIVE Join(_)
Join(cells) ==
    IF cells = <<>> THEN ""
    ELSE IF Len(cells) = 1 THEN cells[1]
    ELSE cells[1] \o "," \o Join(Tail(cells))

\* ------------------------------------------------------------------ tables
\* A file is [exists, lines]; a line is its sequence of cells and a blank
\* line is <<>>.  A zero-length file has no line.
\* A table is [columns, rows]: the column labels and, per row, one cell per
\* column.  Cells are kept as the text the file holds; a missing cell is "".
\* A cell of a column coerced to numbers is [ok, v]: the number v, or NaN.
NaN == [ok |-> FALSE, v |-> 0]
Num(v) == [ok |-> TRUE, v |-> v]
NoTable == [columns |-> <<>>, rows |-> <<>>]
Table(cols, rows) == [columns |-> cols, rows |-> rows]
Shape1(t) == Len(t.columns)

Returned(t, tiers) == [kind |-> "ok", df |-> t, err |-> "none", tiers |-> tiers]
Raised(e, tiers) == [kind |-> "raise", df |-> NoTable, err |-> e, tiers |-> tiers]

EXPECTED_COLS ==
    << "distance_m", "transport", "propModel", "logExp", "refDist", "refLoss",
       "simTime", "appStart", "pktSize", "udpRate", "tcpMaxBytes", "seed", "run",
       "rxBytes", "goodput_Mbps", "rtt_mean_ms", "rtt_p95_ms", "rtt_samples" >>

\* ------------------------------------------------------------------ pandas
\* skip_blank_lines=True.
NonBlank(lines) == SelectSeq(lines, LAMBDA l : l # <<>>)

\* Duplicate header names get ".1", ".2", ... appended.
Mangle(names) ==
    [i \in 1..Len(names) |->
        LET k == Cardinality({j \in 1..(i - 1) : names[j] = names[i]}) IN
        IF k = 0 THEN names[i] ELSE names[i] \o "." \o ToString(k)]

\* One parsed row laid under w columns.  A row with more fields than there
\* are column names gives its leading fields to the index; a row with fewer
\* is padded with missing cells.
Fit(row, w) ==
    LET k == IF Len(row) > w THEN Len(row) - w ELSE 0 IN
    [j \in 1..w |-> IF k + j <= Len(row) THEN row[k + j] ELSE ""]

\* pd.read_csv(path) and pd.read_csv(path, engine="python"): the first
\* non-blank line is the header.
PdReadCsv(lines) ==
    LET ls == NonBlank(lines) IN
    IF ls = <<>> THEN Raised("EmptyDataError", <<>>)
    ELSE LET hdr == Mangle(ls[1]) IN
         Returned(Table(hdr, [i \in 1..(Len(ls) - 1) |-> Fit(ls[i + 1], Len(hdr))]), <<>>)

\* pd.read_csv(path, header=None, engine="python"): the width is that of the
\* first line and the labels are 0, 1, ...  A later line with more fields is an
\* error since pandas 1.4; before, the second line's extra leading fields were
\* taken as an implicit index.
PdReadCsvNoHeader(lines, old) ==
    LET ls == NonBlank(lines) IN
    IF ls = <<>> THEN Raised("EmptyDataError", <<>>)
    ELSE LET w == Len(ls[1])
             labels == [j \in 1..w |-> ToString(j - 1)]
             wide == \E i \in 1..Len(ls) : Len(ls[i]) > w
             k == IF Len(ls) >= 2 /\ Len(ls[2]) > w THEN Len(ls[2]) - w ELSE 0 IN
         IF ~wide THEN Returned(Table(labels, [i \in 1..Len(ls) |-> Fit(ls[i], w)]), <<>>)
         ELSE IF old /\ \A i \in 1..Len(ls) : Len(ls[i]) <= w + k
         THEN Returned(Table(labels,
                  [i \in 1..Len(ls) |->
                      [j \in 1..w |-> IF k + j <= Len(ls[i]) THEN ls[i][k + j] ELSE ""]]), <<>>)
         ELSE Raised("ParserError", <<>>)

\* df.columns = names: a length mismatch is a ValueError.
SetColumns(t, names, tiers) ==
    IF Len(names) = Shape1(t) THEN Returned(Table(names, t.rows), tiers)
    ELSE Raised("ValueError", tiers)

\* ------------------------------------------------------- read_sweep_csv
\* "not path.exists() or path.stat().st_size == 0".
MissingOnly(f) == ~f.exists
MissingOrEmpty(f) == ~f.exists \/ f.lines = <<>>

\* readline().strip() of the file.
FirstLine(f) == Join(f.lines[1])

\* The test that rejects the header-based parse.
SuspiciousSpecWording(first_line, t) ==
    \/ Contains("...", first_line)
    \/ ~(\E i \in DOMAIN t.columns : t.columns[i] = "distance_m")
         /\ Shape1(t) # Len(EXPECTED_COLS)
Suspicious(first_line, t) ==
    \/ Contains("...", first_line)
    \/ ~(\E i \in DOMAIN t.columns : t.columns[i] = "distance_m")
         /\ Shape1(t) = Len(EXPECTED_COLS)

\* any("distance" in s for s in row0).
HeaderLike(row0) == \E j \in DOMAIN row0 : Contains("distance", row0[j])

\* The width for which the canonical names are assigned.
NamesFitAtLeast(t) == Shape1(t) >= Len(EXPECTED_COLS)
NamesFit(t) == Shape1(t) = Len(EXPECTED_COLS)

\* The headerless fallback and the last resort after it.
Fallback(f, old, tiers) ==
    LET raw == PdReadCsvNoHeader(f.lines, old) IN
    IF raw.kind = "raise" THEN Raised(raw.err, tiers)
    ELSE IF NamesFit(raw.df)
    THEN LET rows == IF HeaderLike(raw.df.rows[1]) THEN Tail(raw.df.rows) ELSE raw.df.rows IN
         SetColumns(Table(raw.df.columns, rows), EXPECTED_COLS, tiers)
    ELSE LET last == PdReadCsv(f.lines) IN
         IF last.kind = "raise" THEN Raised(last.err, Append(tiers, "last_resort"))
         ELSE Returned(last.df, Append(tiers, "last_resort"))

\* read_sweep_csv(path): the outcome, with the strategies tried in order.
read_sweep_csv(f, old) ==
    IF MissingOrEmpty(f) THEN Raised("FileNotFoundError", <<>>)
    ELSE LET fast == PdReadCsv(f.lines) IN
         IF fast.kind = "ok" /\ ~Suspicious(FirstLine(f), fast.df)
         THEN Returned(fast.df, <<"header">>)
         ELSE Fallback(f, old, <<"header", "headerless">>)

\* ------------------------------------------------------- numeric coercion
IsDigit(c) == \E d \in 0..9 : ToString(d) = c
DigitVal(c) == CHOOSE d \in 0..9 : ToString(d) = c

RECURSIVE ParseInt(_)
ParseInt(s) ==
    IF Len(s) = 1 THEN DigitVal(s)
    ELSE 10 * ParseInt(SubSeq(s, 1, Len(s) - 1)) + DigitVal(SubSeq(s, Len(s), Len(s)))

\* pd.to_numeric(cell, errors="coerce") on the text of a cell: the number it
\* spells, NaN for a missing cell or for text that spells none.  The input
\* family spells its numbers as unsigned decimal integers.
ToNumeric(c) ==
    IF c # "" /\ \A i \in 1..Len(c) : IsDigit(SubSeq(c, i, i)) THEN Num(ParseInt(c)) ELSE NaN

HasCol(t, c) == \E i \in DOMAIN t.columns : t.columns[i] = c
ColIndex(t, c) == CHOOSE i \in DOMAIN t.columns : t.columns[i] = c

\* coerce_numeric(df, cols): every listed column the table has is coerced.
coerce_numeric(t, cols) ==
    Table(t.columns,
          [r \in DOMAIN t.rows |->
              [j \in DOMAIN t.columns |->
                  IF t.columns[j] \in cols THEN ToNumeric(t.rows[r][j]) ELSE t.rows[r][j]]])

\* df.dropna(subset=[c]) on a table that has the (coerced) column c.
DropNaAnyDropsAll(t, c) ==
    IF \E r \in DOMAIN t.rows : ~t.rows[r][ColIndex(t, c)].ok THEN Table(t.columns, <<>>) ELSE t
DropNa(t, c) ==
    Table(t.columns, SelectSeq(t.rows, LAMBDA row : row[ColIndex(t, c)].ok))

\* The columns plot_p3 main coerces.
P3Numeric == {"distance_m", "goodput_Mbps", "rtt_mean_ms", "rtt_p95_ms", "rtt_samples", "run"}

\* ------------------------------------------------------------ input files
\* Text of the distance_m cell of a data row: two numbers, text that is no
\* number, a missing cell.
DistCells == {"10", "20", "abc", ""}

\* The other cells of a data row of p3_sweep.csv, by position.
RowTail ==
    << "udp", "LogDistance", "3", "1", "46", "20", "2", "1200", "50Mbps", "0",
       "7", "5", "123456", "42", "9", "11", "100" >>

\* A data row of w fields whose distance cell is d (a row wider than the
\* canonical one carries trailing fields "x").
DataRow(w, d) ==
    [j \in 1..w |-> IF j = 1 THEN d
                    ELSE IF j - 1 <= Len(RowTail) THEN RowTail[j - 1] ELSE "x"]

\* The canonical header cut or extended to w names.
HeaderLine(w) ==
    [j \in 1..w |-> IF j <= Len(EXPECTED_COLS) THEN EXPECTED_COLS[j] ELSE "extra"]

DataWidths == {Len(EXPECTED_COLS) - 1, Len(EXPECTED_COLS), Len(EXPECTED_COLS) + 1}

\* First lines with the corruption marker of a truncated export: the marker
\* alone, a header cut short after two names, a full-width header whose last
\* or first name is the marker.
EllipsisLines(w) ==
    { << "..." >>,
      << "distance_m", "transport", "..." >>,
      [j \in 1..w |-> IF j = w THEN "..." ELSE HeaderLine(w)[j]],
      [j \in 1..w |-> IF j = 1 THEN "..." ELSE HeaderLine(w)[j]] }

RowSeqs(w) ==
    UNION {[1..n -> {DataRow(w, d) : d \in DistCells}] : n \in 0..MaxRows}

\* The files: absent, zero-length, a lone blank line, and tables of uniform
\* data rows under a canonical header, under no header, or under a corrupted
\* first line.
Files ==
    {[exists |-> FALSE, lines |-> <<>>],
     [exists |-> TRUE, lines |-> <<>>],
     [exists |-> TRUE, lines |-> << <<>> >>]}
    \cup {[exists |-> TRUE, lines |-> <<first>> \o rows] :
            first \in {HeaderLine(w) : w \in DataWidths}
                      \cup UNION {EllipsisLines(w) : w \in DataWidths},
            rows \in UNION {RowSeqs(w) : w \in DataWidths}}

\* Files whose data rows are as wide as the first line or wider (a header
\* with more names than the rows have fields is not enumerated), plus the
\* headerless tables.
InputFiles ==
    {f \in Files : \A i \in 2..Len(f.lines) : Len(f.lines[i]) >= Len(f.lines[1])}
    \cup {[exists |-> TRUE, lines |-> rows] :
            rows \in UNION {RowSeqs(w) \ {<<>>} : w \in DataWidths}}

\* ------------------------------------------------- plot_p3 main, ingestion
NoOutcome == [kind |-> "none", df |-> NoTable, err |-> "none", tiers |-> <<>>]

\* "if not sweep_path.exists(): ... return 2".
P3Exists ==
    /\ tfn = "p3_main" /\ tpc = "start"
    /\ IF ~tin.exists
       THEN /\ tpc' = "exited"
            /\ tcode' = 2
            /\ tlog' = Append(tlog, "[ERROR] Missing")
       ELSE /\ tpc' = "read"
            /\ UNCHANGED <<tcode, tlog>>
    /\ UNCHANGED <<tfn, tin, legacy, df, tout, runVars, concVars>>

\* "df = read_sweep_csv(sweep_path)"; an exception leaves main (traceback,
\* exit status 1).
P3Read ==
    /\ tfn = "p3_main" /\ tpc = "read"
    /\ tout' = read_sweep_csv(tin, legacy)
    /\ IF tout'.kind = "raise"
       THEN /\ tpc' = "exited"
            /\ tcode' = 1
            /\ tlog' = Append(tlog, tout'.err)
            /\ df' = df
       ELSE /\ tpc' = "coerce"
            /\ df' = tout'.df
            /\ UNCHANGED <<tcode, tlog>>
    /\ UNCHANGED <<tfn, tin, legacy, runVars, concVars>>

\* "df = coerce_numeric(df, [...])".
P3Coerce ==
    /\ tfn = "p3_main" /\ tpc = "coerce"
    /\ df' = coerce_numeric(df, P3Numeric)
    /\ tpc' = "dropna"
    /\ UNCHANGED <<tfn, tin, legacy, tout, tlog, tcode, runVars, concVars>>

\* "df = df.dropna(subset=["distance_m"]).copy()": KeyError without the column.
P3DropNa ==
    /\ tfn = "p3_main" /\ tpc = "dropna"
    /\ IF HasCol(df, "distance_m")
       THEN /\ df' = DropNa(df, "distance_m")
            /\ tpc' = "goodput"
            /\ UNCHANGED <<tcode, tlog>>
       ELSE /\ tpc' = "exited"
            /\ tcode' = 1
            /\ tlog' = Append(tlog, "KeyError")
            /\ UNCHANGED df
    /\ UNCHANGED <<tfn, tin, legacy, tout, runVars, concVars>>

\* "if "goodput_Mbps" not in df.columns: ... return 3"; else the rows go on to
\* the aggregation.
P3Goodput ==
    /\ tfn = "p3_main" /\ tpc = "goodput"
    /\ IF HasCol(df, "goodput_Mbps")
       THEN /\ tpc' = "ingested"
            /\ UNCHANGED <<tcode, tlog>>
       ELSE /\ tpc' = "exited"
            /\ tcode' = 3
            /\ tlog' = Append(tlog, "[ERROR] Column 'goodput_Mbps' not found")
    /\ UNCHANGED <<tfn, tin, legacy, df, tout, runVars, concVars>>

\* --------------------------------- read_csv_robust, _read_csv_optional
\* read_csv_robust(path) of plot_p8: one error for a missing and for a
\* zero-length file, else the header-based parse, the python engine second.
read_csv_robust(f) ==
    IF MissingOrEmpty(f) THEN Raised("FileNotFoundError", <<>>)
    ELSE LET c == PdReadCsv(f.lines) IN
         IF c.kind = "ok" THEN Returned(c.df, <<"header">>)
         ELSE LET py == PdReadCsv(f.lines) IN
              IF py.kind = "ok" THEN Returned(py.df, <<"header", "python">>)
              ELSE Raised(py.err, <<"header", "python">>)

\* What the run-level model calls the state of a file.
FileState(f) ==
    IF ~f.exists THEN "missing"
    ELSE IF f.lines = <<>> THEN "zero"
    ELSE IF Len(NonBlank(f.lines)) <= 1 THEN "header" ELSE "rows"

\* _read_csv_optional(path) of plot_p2 on the file itself: None, or the
\* header-based parse (whose exception leaves the call).
ReadCsvOptional(f) ==
    IF _read_csv_optional(FileState(f)) = "None"
    THEN [kind |-> "None", df |-> NoTable, err |-> "none", tiers |-> <<>>]
    ELSE LET c == PdReadCsv(f.lines) IN
         IF c.kind = "ok" THEN Returned(c.df, <<"header">>) ELSE Raised(c.err, <<"header">>)

\* read_sweep_csv called on a path of its own.
ReadSweep ==
    /\ tfn = "read_sweep_csv" /\ tpc = "start"
    /\ tout' = read_sweep_csv(tin, legacy)
    /\ tpc' = "done"
    /\ UNCHANGED <<tfn, tin, legacy, df, tlog, tcode, runVars, concVars>>

ReadRobust ==
    /\ tfn = "read_csv_robust" /\ tpc = "start"
    /\ tout' = read_csv_robust(tin)
    /\ tpc' = "done"
    /\ UNCHANGED <<tfn, tin, legacy, df, tlog, tcode, runVars, concVars>>

ReadOptional ==
    /\ tfn = "_read_csv_optional" /\ tpc = "start"
    /\ tout' = ReadCsvOptional(tin)
    /\ tpc' = "done"
    /\ UNCHANGED <<tfn, tin, legacy, df, tlog, tcode, runVars, concVars>>

\* ---------------------------------------------------------------- pick_col
Picked(c) == [kind |-> "ok", col |-> c, err |-> "none", tried |-> <<>>]
PickedNone == [kind |-> "none", col |-> "", err |-> "none", tried |-> <<>>]
PickRaised(cands) == [kind |-> "raise", col |-> "", err |-> "ValueError", tried |-> cands]

\* "for c in candidates: if c in df.columns: return c".
RECURSIVE LastPresent(_, _)
LastPresent(t, cands) ==
    IF cands = <<>> THEN ""
    ELSE IF HasCol(t, cands[Len(cands)]) THEN cands[Len(cands)]
    ELSE LastPresent(t, SubSeq(cands, 1, Len(cands) - 1))
RECURSIVE FirstPresent(_, _)
FirstPresent(t, cands) ==
    IF cands = <<>> THEN ""
    ELSE IF HasCol(t, cands[1]) THEN cands[1]
    ELSE FirstPresent(t, Tail(cands))

\* "if required: raise ValueError(...)  return None".
WhenNoneFoundNeverRaises(cands, required) == PickedNone
WhenNoneFound(cands, required) == IF required THEN PickRaised(cands) ELSE PickedNone

\* pick_col(df, candidates, required) of plot_p5 and plot_p8.
pick_col(t, cands, required) ==
    LET c == FirstPresent(t, cands) IN
    IF c # "" THEN Picked(c) ELSE WhenNoneFound(cands, required)

\* Candidate lists the callers pass (plot_p5 88-91, 222-223; plot_p8 226).
CandidateLists ==
    { << "transport" >>,
      << "nSta", "nsta" >>,
      << "staId", "staID", "sta" >>,
      << "goodputbps", "goodput_bps", "goodputBps" >>,
      << "time_s", "time" >>,
      << "throughput_bps", "throughputBps" >>,
      << "beRateMbps", "beRate", "be_rate_mbps", "be_rate" >> }

Range(q) == {q[i] : i \in DOMAIN q}
Reverse(q) == [i \in 1..Len(q) |-> q[Len(q) + 1 - i]]

\* A table with no row whose columns are "run" and the names of sub, laid out
\* in the order opposite to that of the list order.
ColumnsOnly(order, sub) ==
    Table(<<"run">> \o SelectSeq(Reverse(order), LAMBDA c : c \in sub), <<>>)

PickInputs ==
    UNION {[t : {ColumnsOnly(cands, sub) : sub \in SUBSET Range(cands)},
            cands : {cands}, required : BOOLEAN] : cands \in CandidateLists}

PickCol ==
    /\ tfn = "pick_col" /\ tpc = "start"
    /\ tout' = pick_col(tin.t, tin.cands, tin.required)
    /\ tpc' = "done"
    /\ UNCHANGED <<tfn, tin, legacy, df, tlog, tcode, runVars, concVars>>

\* ------------------------------------------------------------ normalizers
\* 1e6, bits per second in one Mbps.
Mega == 1000000

\* x / 1e6 on a coerced cell (the input family holds multiples of 1e6).
DivMega(x) == IF x.ok THEN Num(x.v \div Mega) ELSE NaN

Col(t, c) == [r \in DOMAIN t.rows |-> t.rows[r][ColIndex(t, c)]]

\* df[c] = vals: the column is replaced, or appended when the table lacks it.
SetCol(t, c, vals) ==
    IF HasCol(t, c)
    THEN Table(t.columns,
               [r \in DOMAIN t.rows |->
                   [j \in DOMAIN t.columns |->
                       IF j = ColIndex(t, c) THEN vals[r] ELSE t.rows[r][j]]])
    ELSE Table(Append(t.columns, c), [r \in DOMAIN t.rows |-> Append(t.rows[r], vals[r])])

NumCol(t, c) == [r \in DOMAIN t.rows |-> ToNumeric(Col(t, c)[r])]

Const(t, cell) == [r \in DOMAIN t.rows |-> cell]

\* normalize_columns(df) of plot_p4, up to the numeric coercions.  The last
\* loop also lists rttMeanMs and goodputMbps, which are numbers by then and
\* which pd.to_numeric leaves as they are.
normalize_columns(t) ==
    LET g == IF HasCol(t, "goodputMbps")
             THEN Returned(SetCol(t, "goodputMbps", NumCol(t, "goodputMbps")), <<>>)
             ELSE IF HasCol(t, "goodputbps")
             THEN Returned(SetCol(t, "goodputMbps",
                      [r \in DOMAIN t.rows |-> DivMega(NumCol(t, "goodputbps")[r])]), <<>>)
             ELSE IF HasCol(t, "goodput_Mbps")
             THEN Returned(SetCol(t, "goodputMbps", NumCol(t, "goodput_Mbps")), <<>>)
             ELSE Raised("ValueError", <<"goodputMbps", "goodputbps", "goodput_Mbps">>)
    IN
    IF g.kind = "raise" THEN g
    ELSE LET t1 == g.df
             t2 == IF HasCol(t1, "rttMeanMs") THEN SetCol(t1, "rttMeanMs", NumCol(t1, "rttMeanMs"))
                   ELSE IF HasCol(t1, "rtt_mean_ms")
                   THEN SetCol(t1, "rttMeanMs", NumCol(t1, "rtt_mean_ms"))
                   ELSE SetCol(t1, "rttMeanMs", Const(t1, NaN))
             t3 == IF ~HasCol(t2, "distance") /\ HasCol(t2, "distance_m")
                   THEN SetCol(t2, "distance", Col(t2, "distance_m")) ELSE t2
         IN Returned(coerce_numeric(t3, {"distance", "distance_m", "channelWidth", "txPowerDbm",
                                         "mcs", "run", "seed", "rxBytes"}), <<>>)

\* The loop "for cand in [...]: if cand in columns: df[target] = df[cand]; break"
\* of plot_p6, entered when the table lacks the target column.
Adopt(t, target, cands) ==
    IF HasCol(t, target) \/ FirstPresent(t, cands) = "" THEN t
    ELSE SetCol(t, target, Col(t, FirstPresent(t, cands)))

\* normalize_throughput_df(thr) of plot_p6.
normalize_throughput_df(t) ==
    LET t1 == IF ~HasCol(t, "time_s") /\ HasCol(t, "time")
              THEN SetCol(t, "time_s", Col(t, "time")) ELSE t
        t2 == Adopt(t1, "throughput_bps", <<"throughputBps", "throughput_bps", "throughput">>)
    IN Returned(coerce_numeric(t2, {"run", "time_s", "throughput_bps"}), <<>>)

\* normalize_rtt_df(rtt) of plot_p6.
normalize_rtt_df(t) ==
    LET t1 == IF ~HasCol(t, "time_s") /\ HasCol(t, "time")
              THEN SetCol(t, "time_s", Col(t, "time")) ELSE t
        t2 == Adopt(t1, "rtt_ms", <<"rttMs", "rtt_ms", "rtt">>)
    IN Returned(coerce_numeric(t2, {"run", "time_s", "seq", "rtt_ms"}), <<>>)

\* Text of the cell of column c in row r of the tables given to the
\* normalizers: a number of its own per column, the row number in front.
BaseText(c) ==
    CASE c = "goodputMbps" -> "7"
      [] c = "goodputbps" -> "5000000"
      [] c = "goodput_Mbps" -> "9"
      [] c = "rttMeanMs" -> "3"
      [] c = "rtt_mean_ms" -> "4"
      [] c = "distance" -> "10"
      [] c = "distance_m" -> "20"
      [] c = "time_s" -> "1"
      [] c = "time" -> "2"
      [] c = "throughput_bps" -> "100"
      [] c = "throughputBps" -> "200"
      [] c = "throughput" -> "300"
      [] c = "rtt_ms" -> "40"
      [] c = "rttMs" -> "50"
      [] c = "rtt" -> "60"
      [] OTHER -> "8"

\* Tables of n rows over the columns of sub, in the order of universe.
TableOver(universe, sub, n) ==
    LET cols == SelectSeq(universe, LAMBDA c : c \in sub) IN
    Table(cols, [r \in 1..n |-> [j \in DOMAIN cols |-> ToString(r) \o BaseText(cols[j])]])

TablesOver(universe) ==
    {TableOver(universe, sub, n) : sub \in SUBSET Range(universe), n \in 0..MaxRows}

P4Universe == << "distance_m", "goodput_Mbps", "rtt_mean_ms", "goodputbps", "distance",
                 "rttMeanMs", "goodputMbps" >>
ThrUniverse == << "run", "throughput", "time", "throughputBps", "time_s", "throughput_bps" >>
RttUniverse == << "run", "rtt", "time", "rttMs", "seq", "time_s", "rtt_ms" >>

NormalizeColumns ==
    /\ tfn = "normalize_columns" /\ tpc = "start"
    /\ tout' = normalize_columns(tin)
    /\ tpc' = "done"
    /\ UNCHANGED <<tfn, tin, legacy, df, tlog, tcode, runVars, concVars>>

NormalizeThroughput ==
    /\ tfn = "normalize_throughput_df" /\ tpc = "start"
    /\ tout' = normalize_throughput_df(tin)
    /\ tpc' = "done"
    /\ UNCHANGED <<tfn, tin, legacy, df, tlog, tcode, runVars, concVars>>

NormalizeRtt ==
    /\ tfn = "normalize_rtt_df" /\ tpc = "start"
    /\ tout' = normalize_rtt_df(tin)
    /\ tpc' = "done"
    /\ UNCHANGED <<tfn, tin, legacy, df, tlog, tcode, runVars, concVars>>

\* ---------------------------------------------- load_p2_data, the tables
\* What _read_csv_optional gave for one path: None, or a table.
NoneOpt == [some |-> FALSE, t |-> NoTable]
Opt(t) == [some |-> TRUE, t |-> t]

\* DataFrame.empty.
Empty(t) == t.rows = <<>> \/ t.columns = <<>>

\* "t = f.copy(); t["transport"] = tr; t["run"] = rn".
Tagged(t, tr, rn) == SetCol(SetCol(t, "transport", Const(t, tr)), "run", Const(t, rn))

\* pd.concat([a, b], ignore_index=True): the union of the columns, a's
\* first; a cell of a column a frame lacks is missing.
Concat(a, b) ==
    LET cols == a.columns \o SelectSeq(b.columns, LAMBDA c : ~HasCol(a, c))
        Lay(t, row) == [j \in DOMAIN cols |->
                           IF HasCol(t, cols[j]) THEN row[ColIndex(t, cols[j])] ELSE ""]
    IN Table(cols, [r \in DOMAIN a.rows |-> Lay(a, a.rows[r])]
                   \o [r \in DOMAIN b.rows |-> Lay(b, b.rows[r])])

\* The frame load_p2_data starts from: the consolidated file, else the
\* per-transport files tagged udp/1 and tcp/2, else an empty frame.
P2Frame(all, udp, tcp) ==
    IF all.some THEN all.t
    ELSE IF udp.some /\ tcp.some THEN Concat(Tagged(udp.t, "udp", "1"), Tagged(tcp.t, "tcp", "2"))
    ELSE IF udp.some THEN Tagged(udp.t, "udp", "1")
    ELSE IF tcp.some THEN Tagged(tcp.t, "tcp", "2")
    ELSE NoTable

\* .astype(str) on a text cell: a missing cell reads "nan".
AsStr(c) == IF c = "" THEN "nan" ELSE c

\* pd.to_numeric(errors="coerce").fillna(1).astype(int) on a text cell.
RunInt(c) == IF ToNumeric(c).ok THEN ToNumeric(c) ELSE Num(1)

\* The default given to a table without a transport column.
DefaultTransportEmpty == ""
DefaultTransport == "unknown"

\* "if not thr.empty:" ahead of the column validation.
Validated(t) == ~Empty(t)

\* load_p2_data for one kind of table, whose metric column is named metric
\* (throughput_bps, rtt_ms).
load_p2_table(all, udp, tcp, metric) ==
    LET t == P2Frame(all, udp, tcp) IN
    IF ~Validated(t) THEN Returned(t, <<>>)
    ELSE IF ~HasCol(t, "time_s") \/ ~HasCol(t, metric)
    THEN Raised("ValueError", <<"time_s", metric>>)
    ELSE LET t1 == IF ~HasCol(t, "transport")
                   THEN SetCol(t, "transport", Const(t, DefaultTransport)) ELSE t
             t2 == IF ~HasCol(t1, "run") THEN SetCol(t1, "run", Const(t1, "1")) ELSE t1
             t3 == SetCol(t2, "transport", [r \in DOMAIN t2.rows |-> AsStr(Col(t2, "transport")[r])])
         IN Returned(SetCol(t3, "run", [r \in DOMAIN t3.rows |-> RunInt(Col(t3, "run")[r])]), <<>>)

\* Rows of the consolidated file: the transport and run cells are a value
\* each, a missing transport with a run that is no number, or a missing run.
P2RowKinds == { << "tcp", "3" >>, << "", "abc" >>, << "udp", "" >> }

P2Table(metric, sub, kinds) ==
    LET cols == SelectSeq(<< "time_s", metric, "transport", "run" >>, LAMBDA c : c \in sub) IN
    Table(cols,
          [r \in DOMAIN kinds |->
              [j \in DOMAIN cols |->
                  CASE cols[j] = "transport" -> kinds[r][1]
                    [] cols[j] = "run" -> kinds[r][2]
                    [] OTHER -> ToString(r) \o BaseText(cols[j])]])

P2Tables(metric) ==
    {P2Table(metric, sub, kinds) :
        sub \in (SUBSET {"time_s", metric, "transport", "run"}) \ {{}},
        kinds \in UNION {[1..n -> P2RowKinds] : n \in 0..MaxRows}}

\* A per-transport file: absent, or one row with or without transport and
\* run columns of its own.
P2PartFiles(metric) ==
    {NoneOpt,
     Opt(P2Table(metric, {"time_s", metric}, << << "", "" >> >>)),
     Opt(P2Table(metric, {"time_s", metric, "transport", "run"}, << << "tcp", "3" >> >>))}

LoadP2Inputs ==
    UNION {[all : {Opt(t) : t \in P2Tables(metric)}, udp : {NoneOpt}, tcp : {NoneOpt},
            metric : {metric}]
           \cup [all : {NoneOpt}, udp : P2PartFiles(metric), tcp : P2PartFiles(metric),
                 metric : {metric}] : metric \in {"throughput_bps", "rtt_ms"}}

LoadP2 ==
    /\ tfn = "load_p2_data" /\ tpc = "start"
    /\ tout' = load_p2_table(tin.all, tin.udp, tin.tcp, tin.metric)
    /\ tpc' = "done"
    /\ UNCHANGED <<tfn, tin, legacy, df, tlog, tcode, runVars, concVars>>

\* ------------------------------------------------------ the specification
\* No export of a run of main() is under way.
RunAtRest ==
    /\ fs = [p \in Targets |-> Absent]
    /\ tmp = NoTmp
    /\ mpc = "start" /\ exit = -1 /\ art = 0
    /\ spc = "idle" /\ wpc = "idle"
    /\ wtarget = Target(1, "html")
    /\ events = <<>>
    /\ htmlOut = "none" /\ pngOut = "none" /\ raisedKind = "none"
    /\ tried = {} /\ failed = {} /\ log = <<>>
    /\ strictFail = FALSE /\ crashed = FALSE

\* A fixed idle state of the run-level variables.
RunIdle ==
    /\ script = "p3" /\ strict = FALSE /\ kaleido = FALSE /\ max_retries = 0
    /\ inp = CHOOSE i \in Inputs("p3") : i.t1 = "rows"
    /\ prev = Absent
    /\ RunAtRest

\* The input of the entry point fn.
TableInputs(fn) ==
    CASE fn \in {"p3_main", "read_sweep_csv", "read_csv_robust", "_read_csv_optional"}
            -> InputFiles
      [] fn = "pick_col" -> PickInputs
      [] fn = "normalize_columns" -> TablesOver(P4Universe)
      [] fn = "normalize_throughput_df" -> TablesOver(ThrUniverse)
      [] fn = "normalize_rtt_df" -> TablesOver(RttUniverse)
      [] fn = "load_p2_data" -> LoadP2Inputs

EntryPoints ==
    {"p3_main", "read_sweep_csv", "read_csv_robust", "_read_csv_optional", "pick_col",
     "normalize_columns", "normalize_throughput_df", "normalize_rtt_df", "load_p2_data"}

TableInit ==
    /\ RunIdle
    /\ ConcIdle
    /\ tfn \in EntryPoints
    /\ tin \in TableInputs(tfn)
    /\ legacy \in (IF tfn \in {"p3_main", "read_sweep_csv"} THEN BOOLEAN ELSE {FALSE})
    /\ tpc = "start"
    /\ df = NoTable
    /\ tout = NoOutcome
    /\ tlog = <<>>
    /\ tcode = -1

TableNext ==
    \/ P3Exists
    \/ P3Read
    \/ P3Coerce
    \/ P3DropNa
    \/ P3Goodput
    \/ ReadSweep
    \/ ReadRobust
    \/ ReadOptional
    \/ PickCol
    \/ NormalizeColumns
    \/ NormalizeThroughput
    \/ NormalizeRtt
    \/ LoadP2

TableSpec == TableInit /\ [][TableNext]_vars

\* ================================================== claims, table ingestion
\* read_sweep_csv has been called (by plot_p3 main or on its own) on an
\* existing, non-empty file.
P3ReadDone ==
    /\ \/ tfn = "p3_main" /\ tpc \notin {"start", "read"}
       \/ tfn = "read_sweep_csv" /\ tpc = "done"
    /\ tin.exists /\ tin.lines # <<>>

\* The headerless fallback was entered.
FellBack == \E i \in DOMAIN tout.tiers : tout.tiers[i] = "headerless"

\* Facts about the text of the file.
EllipsisInFirstLine == \E j \in DOMAIN tin.lines[1] : Contains("...", tin.lines[1][j])
FirstLineNames(name) == \E j \in DOMAIN tin.lines[1] : tin.lines[1][j] = name
OnlyBlankLines == NonBlank(tin.lines) = <<>>

\* C11 (as stated): the header-based parse is abandoned for the headerless
\* fallback exactly when the first line contains "..." or the number of parsed
\* columns differs from the canonical number while distance_m is absent;
\* otherwise the header-based result is returned as it is.
C11_FallbackIffSuspicious ==
    (P3ReadDone /\ ~OnlyBlankLines) =>
        /\ FellBack <=> \/ EllipsisInFirstLine
                        \/ ~FirstLineNames("distance_m")
                             /\ Len(tin.lines[1]) # Len(EXPECTED_COLS)
        /\ ~FellBack => tout = Returned(PdReadCsv(tin.lines).df, <<"header">>)

\* C11 (amended): the header-based parse is abandoned exactly when it raises,
\* when the first line contains "...", or when the number of parsed columns
\* EQUALS the canonical number while distance_m is absent; otherwise the
\* header-based result is returned as it is.
C11_FallbackIffBrokenHeader ==
    P3ReadDone =>
        /\ FellBack <=> \/ OnlyBlankLines
                        \/ EllipsisInFirstLine
                        \/ ~FirstLineNames("distance_m")
                             /\ Len(tin.lines[1]) = Len(EXPECTED_COLS)
        /\ ~FellBack => /\ tout.kind = "ok" /\ tout.tiers = <<"header">>
                        /\ tout.df.columns = Mangle(tin.lines[1])
                        /\ Len(tout.df.rows) = Len(tin.lines) - 1

\* A headerless file of canonical width was read through the fallback, and a
\* headerless file of another width through the header-based parse.
C11_Witness ==
    /\ P3ReadDone /\ FellBack /\ tout.kind = "ok"
    /\ ~EllipsisInFirstLine /\ ~FirstLineNames("distance_m")
    /\ Len(tin.lines[1]) = Len(EXPECTED_COLS)

\* Every line of the file has as many fields as the first.
Rectangular == \A i \in DOMAIN tin.lines : Len(tin.lines[i]) = Len(tin.lines[1])
FirstLineHeaderLike == \E j \in DOMAIN tin.lines[1] : Contains("distance", tin.lines[1][j])

\* C12: in the headerless fallback the canonical names are assigned, by
\* position, if and only if the first line has exactly len(EXPECTED_COLS)
\* fields, and then a header-like first row (a cell contains "distance") is
\* dropped and any other first row kept; a table of any other width never
\* receives the canonical names, and naming never fails.
C12_PositionalNamesIffCanonicalWidth ==
    (P3ReadDone /\ FellBack) =>
        /\ tout.kind = "raise" => tout.err \in {"ParserError", "EmptyDataError"}
        /\ (tout.kind = "ok" /\ Len(tin.lines[1]) = Len(EXPECTED_COLS)) =>
              /\ tout.tiers = <<"header", "headerless">>
              /\ tout.df.columns = EXPECTED_COLS
              /\ Rectangular =>
                    tout.df.rows = IF FirstLineHeaderLike THEN Tail(tin.lines) ELSE tin.lines
        /\ (tout.kind = "ok" /\ Len(tin.lines[1]) # Len(EXPECTED_COLS)) =>
              /\ tout.df.columns # EXPECTED_COLS
              /\ tout.tiers = <<"header", "headerless", "last_resort">>

\* The fallback named a table whose header-like first row it dropped.
C12_Witness ==
    /\ P3ReadDone /\ FellBack /\ tout.kind = "ok"
    /\ Len(tin.lines[1]) = Len(EXPECTED_COLS) /\ Rectangular /\ FirstLineHeaderLike
    /\ Len(tin.lines) > 1
    /\ tout.df = Table(EXPECTED_COLS, Tail(tin.lines))

\* The rows that reach the aggregation from a table: those whose distance_m
\* is a number, with the numeric columns coerced.
Observations(t) == DropNa(coerce_numeric(t, P3Numeric), "distance_m")

\* The file is the canonical serialization of a table.
WellFormedFile ==
    /\ tin.lines[1] = EXPECTED_COLS
    /\ Rectangular
\* The file is such a serialization with its header replaced by a line that
\* holds the marker "...".
EllipsisHeaderFile ==
    /\ EllipsisInFirstLine
    /\ \A i \in 2..Len(tin.lines) : Len(tin.lines[i]) = Len(EXPECTED_COLS)

\* C13: a well-formed table is returned unchanged by the header-based parse,
\* and the same file with its header replaced by an ellipsis line yields the
\* same Observations under the canonical column names.
C13_RoundTripAndEllipsisRecovery ==
    P3ReadDone =>
        /\ WellFormedFile => tout = Returned(Table(EXPECTED_COLS, Tail(tin.lines)), <<"header">>)
        /\ EllipsisHeaderFile =>
              /\ tout.kind = "ok"
              /\ tout.df.columns = EXPECTED_COLS
              /\ Observations(tout.df) = Observations(Table(EXPECTED_COLS, Tail(tin.lines)))

\* C14: when the header-based parse was rejected and the headerless parse has
\* not the canonical width, read_sweep_csv fails; it returns no table whose
\* columns come from the rejected header.
C14_UnparsableTableSurfaces ==
    (P3ReadDone /\ FellBack /\ Len(tin.lines[1]) # Len(EXPECTED_COLS)) =>
        /\ tout.kind = "raise"
        /\ tout.df = NoTable

\* The reader under call, and its outcome on a path that does not exist.
ReaderDone == tfn \in {"read_sweep_csv", "read_csv_robust", "_read_csv_optional"} /\ tpc = "done"
NoSuchFile == [exists |-> FALSE, lines |-> <<>>]
OnMissing ==
    CASE tfn = "read_sweep_csv" -> read_sweep_csv(NoSuchFile, legacy)
      [] tfn = "read_csv_robust" -> read_csv_robust(NoSuchFile)
      [] OTHER -> ReadCsvOptional(NoSuchFile)

\* C15 (as stated): a missing path fails with a MissingFile error and a
\* zero-length file with a distinct EmptyFile error; neither returns a table
\* nor attempts a parse.
C15_MissingAndEmptyDistinct ==
    (ReaderDone /\ (~tin.exists \/ tin.lines = <<>>)) =>
        /\ tout.kind = "raise"
        /\ tout.tiers = <<>> /\ tout.df = NoTable
        /\ (tin.exists /\ tin.lines = <<>>) => tout.err # OnMissing.err

\* C15 (amended): a missing path and a zero-length file end the same way,
\* before any parse and without a table: read_sweep_csv and read_csv_robust
\* raise FileNotFoundError, _read_csv_optional returns None; any other file is
\* parsed.
C15_MissingOrEmptyNoParse ==
    ReaderDone =>
        IF ~tin.exists \/ tin.lines = <<>>
        THEN /\ tout.tiers = <<>> /\ tout.df = NoTable
             /\ tout = OnMissing
             /\ tfn \in {"read_sweep_csv", "read_csv_robust"} =>
                    tout.kind = "raise" /\ tout.err = "FileNotFoundError"
             /\ tfn = "_read_csv_optional" => tout.kind = "None"
        ELSE tout.tiers # <<>>

\* A reader was given a zero-length file.
C15_Witness ==
    /\ ReaderDone /\ tfn = "read_csv_robust"
    /\ tin.exists /\ tin.lines = <<>>
    /\ tout.kind = "raise"

\* ----------------------------------------------------- column resolution
\* The earliest name of a priority list that is a column of t ("" if none).
FirstSynonym(t, list) ==
    LET present == {i \in DOMAIN list : \E j \in DOMAIN t.columns : t.columns[j] = list[i]} IN
    IF present = {} THEN "" ELSE list[CHOOSE i \in present : \A k \in present : i <= k]

\* Column target of the table out holds, row by row, the numbers that column
\* src of the table in spells, divided by 1e6 if scaled.
ResolvedFrom(in, out, target, src, scaled) ==
    /\ \E j \in DOMAIN out.columns : out.columns[j] = target
    /\ Len(out.rows) = Len(in.rows)
    /\ \A r \in DOMAIN in.rows :
          LET n == ToNumeric(in.rows[r][ColIndex(in, src)]) IN
          out.rows[r][ColIndex(out, target)] = IF scaled THEN DivMega(n) ELSE n

\* A canonical field is resolved from the earliest present name of its list.
Resolves(target, list) ==
    FirstSynonym(tin, list) # "" =>
        /\ tout.kind = "ok"
        /\ ResolvedFrom(tin, tout.df, target, FirstSynonym(tin, list),
                        FirstSynonym(tin, list) = "goodputbps")

\* C16: for each canonical field the first name of its synonym list, in list
\* order, that is a column of the table is the one used; later synonyms that
\* are present too are ignored (pick_col, normalize_columns,
\* normalize_throughput_df, normalize_rtt_df).  In plot_p6 the list is headed
\* by the canonical name itself, which is tested before the loop.
C16_FirstSynonymWins ==
    /\ (tfn = "pick_col" /\ tpc = "done") =>
          (FirstSynonym(tin.t, tin.cands) # "" =>
              tout.kind = "ok" /\ tout.col = FirstSynonym(tin.t, tin.cands))
    /\ (tfn = "normalize_columns" /\ tpc = "done") =>
          /\ Resolves("goodputMbps", <<"goodputMbps", "goodputbps", "goodput_Mbps">>)
          /\ tout.kind = "ok" => Resolves("rttMeanMs", <<"rttMeanMs", "rtt_mean_ms">>)
          /\ tout.kind = "ok" => Resolves("distance", <<"distance", "distance_m">>)
    /\ (tfn = "normalize_throughput_df" /\ tpc = "done") =>
          /\ Resolves("throughput_bps", <<"throughput_bps", "throughputBps", "throughput">>)
          /\ Resolves("time_s", <<"time_s", "time">>)
    /\ (tfn = "normalize_rtt_df" /\ tpc = "done") =>
          /\ Resolves("rtt_ms", <<"rtt_ms", "rttMs", "rtt">>)
          /\ Resolves("time_s", <<"time_s", "time">>)

\* pick_col saw two synonyms, the later-declared one first in the table, and
\* returned the earlier-declared one.
C16_Witness ==
    /\ tfn = "pick_col" /\ tpc = "done"
    /\ Len(tin.cands) >= 2
    /\ HasCol(tin.t, tin.cands[1]) /\ HasCol(tin.t, tin.cands[2])
    /\ ColIndex(tin.t, tin.cands[2]) < ColIndex(tin.t, tin.cands[1])
    /\ tout.col = tin.cands[1]

\* The table load_p2_data read from the consolidated file.
P2Consolidated == tfn = "load_p2_data" /\ tpc = "done" /\ tin.all.some
P2MissingRequired(t) ==
    \/ \A j \in DOMAIN t.columns : t.columns[j] # "time_s"
    \/ \A j \in DOMAIN t.columns : t.columns[j] # tin.metric

\* C17 (as stated): normalization fails with an error naming the missing
\* field exactly when a field marked required has none of its synonyms among
\* the table's columns; for a field not marked required there is no error.
C17_ErrorIffRequiredMissing ==
    /\ (tfn = "pick_col" /\ tpc = "done") =>
          /\ tout.kind = "raise" <=> tin.required /\ FirstSynonym(tin.t, tin.cands) = ""
          /\ tout.kind = "raise" => tout.tried = tin.cands
          /\ (~tin.required /\ FirstSynonym(tin.t, tin.cands) = "") => tout.kind = "none"
    /\ P2Consolidated =>
          /\ tout.kind = "raise" <=> P2MissingRequired(tin.all.t)
          /\ tout.kind = "raise" => tout.tiers = <<"time_s", tin.metric>>
    /\ (tfn \in {"normalize_throughput_df", "normalize_rtt_df"} /\ tpc = "done") =>
          tout.kind = "ok"

\* C17 (amended): pick_col fails, listing the names it tried, exactly when
\* required is set and no candidate is a column, and returns None when
\* required is not set; load_p2_data fails, naming time_s and the metric
\* column, exactly when the table has at least one row and lacks one of the
\* two (a table without rows is not validated); the plot_p6 normalizers mark
\* no field required and never fail.
C17_ErrorIffRequiredMissingInRows ==
    /\ (tfn = "pick_col" /\ tpc = "done") =>
          /\ tout.kind = "raise" <=> tin.required /\ FirstSynonym(tin.t, tin.cands) = ""
          /\ tout.kind = "raise" => tout.tried = tin.cands
          /\ (~tin.required /\ FirstSynonym(tin.t, tin.cands) = "") => tout.kind = "none"
    /\ P2Consolidated =>
          /\ tout.kind = "raise" <=> tin.all.t.rows # <<>> /\ P2MissingRequired(tin.all.t)
          /\ tout.kind = "raise" => tout.tiers = <<"time_s", tin.metric>>
    /\ (tfn \in {"normalize_throughput_df", "normalize_rtt_df"} /\ tpc = "done") =>
          tout.kind = "ok"

\* pick_col was asked for a required field none of whose names is a column.
C17_Witness ==
    /\ tfn = "pick_col" /\ tpc = "done"
    /\ tin.required /\ FirstSynonym(tin.t, tin.cands) = ""
    /\ tout = PickRaised(tin.cands)

\* load_p2_data returned a table with rows.
P2Loaded == tfn = "load_p2_data" /\ tpc = "done" /\ tout.kind = "ok" /\ tout.df.rows # <<>>
InHas(t, c) == \E j \in DOMAIN t.columns : t.columns[j] = c
OutCell(r, c) == tout.df.rows[r][ColIndex(tout.df, c)]
IsWholeNumber(c) == c # "" /\ \A i \in 1..Len(c) : \E d \in 0..9 : ToString(d) = SubSeq(c, i, i)

\* The table load_p2_data started from when there is no consolidated file:
\* the rows of the udp file, then those of the tcp file.
P2PartRows == (IF tin.udp.some THEN Len(tin.udp.t.rows) ELSE 0)
              + (IF tin.tcp.some THEN Len(tin.tcp.t.rows) ELSE 0)

\* Every row has a transport and a whole-number run.
P2Typed ==
    /\ InHas(tout.df, "transport") /\ InHas(tout.df, "run")
    /\ \A r \in DOMAIN tout.df.rows :
          /\ OutCell(r, "transport") # ""
          /\ OutCell(r, "run").ok /\ OutCell(r, "run").v \in Nat

\* C18 (as stated): after load_p2_data every row of a non-empty table has a
\* string transport and an integer run; a missing transport column is filled
\* with "unknown" and a missing run column with 1, and values present in the
\* input are kept.
C18_DefaultsFillMissingColumns ==
    P2Loaded =>
        /\ P2Typed
        /\ LET in == IF tin.all.some THEN tin.all.t
                     ELSE IF tin.udp.some THEN tin.udp.t ELSE tin.tcp.t IN
           \A r \in DOMAIN in.rows :
              /\ ~InHas(in, "transport") => OutCell(r, "transport") = "unknown"
              /\ ~InHas(in, "run") => OutCell(r, "run") = Num(1)
              /\ (InHas(in, "transport") /\ in.rows[r][ColIndex(in, "transport")] # "") =>
                    OutCell(r, "transport") = in.rows[r][ColIndex(in, "transport")]
              /\ (InHas(in, "run") /\ in.rows[r][ColIndex(in, "run")] # "") =>
                    OutCell(r, "run") = ToNumeric(in.rows[r][ColIndex(in, "run")])

\* C18 (amended): after load_p2_data every row of a non-empty table has a
\* string transport and an integer run.  For the consolidated file, a missing
\* transport column is filled with "unknown" and a missing run column with 1;
\* a transport cell is kept (a missing one reads "nan"); a run cell is kept
\* when it spells a whole number and becomes 1 otherwise.  For the
\* per-transport fallback files every row gets udp and 1, or tcp and 2,
\* whatever the file held.
C18_DefaultsBySource ==
    P2Loaded =>
        /\ P2Typed
        /\ tin.all.some =>
              LET in == tin.all.t IN
              \A r \in DOMAIN in.rows :
                 /\ OutCell(r, "transport") =
                       IF ~InHas(in, "transport") THEN "unknown"
                       ELSE IF in.rows[r][ColIndex(in, "transport")] = "" THEN "nan"
                       ELSE in.rows[r][ColIndex(in, "transport")]
                 /\ OutCell(r, "run") =
                       IF InHas(in, "run") /\ IsWholeNumber(in.rows[r][ColIndex(in, "run")])
                       THEN Num(ParseInt(in.rows[r][ColIndex(in, "run")]))
                       ELSE Num(1)
        /\ ~tin.all.some =>
              /\ Len(tout.df.rows) = P2PartRows
              /\ \A r \in DOMAIN tout.df.rows :
                    LET udpRow == tin.udp.some /\ r <= Len(tin.udp.t.rows) IN
                    /\ OutCell(r, "transport") = IF udpRow THEN "udp" ELSE "tcp"
                    /\ OutCell(r, "run") = IF udpRow THEN Num(1) ELSE Num(2)

\* A consolidated table with rows and neither a transport nor a run column
\* was loaded.
C18_Witness ==
    /\ P2Loaded /\ tin.all.some
    /\ ~InHas(tin.all.t, "transport") /\ ~InHas(tin.all.t, "run")
    /\ \A r \in DOMAIN tout.df.rows :
          OutCell(r, "transport") = "unknown" /\ OutCell(r, "run") = Num(1)

\* ------------------------------------------------------------ row coercion
\* plot_p3 main is past dropna on a table that has the distance_m column.
P3Dropped ==
    /\ tfn = "p3_main" /\ tout.kind = "ok" /\ InHas(tout.df, "distance_m")
    /\ tpc \in {"goodput", "ingested", "exited"}

\* Rows of the table read whose distance_m spells a number.
GoodRows ==
    {r \in DOMAIN tout.df.rows :
        IsWholeNumber(tout.df.rows[r][ColIndex(tout.df, "distance_m")])}

\* C19: a row whose distance_m does not parse is dropped on its own: the run
\* does not abort on it, and every other row is kept, in order, with the same
\* cells (the numeric columns as the numbers they spell), and goes on.
C19_BadRowDroppedAlone ==
    /\ (tfn = "p3_main" /\ tpc = "exited" /\ tout.kind = "ok" /\ InHas(tout.df, "distance_m")) =>
          tcode = 3 /\ ~InHas(tout.df, "goodput_Mbps")
    /\ P3Dropped =>
          /\ Len(df.rows) = Cardinality(GoodRows)
          /\ df.columns = tout.df.columns
          /\ \A r \in GoodRows :
                LET k == Cardinality({q \in GoodRows : q <= r}) IN
                \A j \in DOMAIN df.columns :
                    df.rows[k][j] = IF df.columns[j] \in P3Numeric
                                    THEN ToNumeric(tout.df.rows[r][j])
                                    ELSE tout.df.rows[r][j]

\* A table with a row that parses after one that does not was ingested, and
\* the row that parses is the one kept.
C19_Witness ==
    /\ P3Dropped /\ tpc = "ingested"
    /\ Len(tout.df.rows) = 2
    /\ GoodRows = {2}
    /\ Len(df.rows) = 1
    /\ df.rows[1][ColIndex(df, "distance_m")] = Num(20)

\* C20: the run exposes a drop counter equal to the number of rows dropped by
\* coercion failures: rows ingested = rows kept + rows dropped.
C20_DropCounterExposed ==
    (tfn = "p3_main" /\ tpc = "ingested") =>
        \E i \in DOMAIN tlog :
            tlog[i] = "dropped=" \o ToString(Len(tout.df.rows) - Len(df.rows))

\* ============================================================== statistics
\* ------------------------------------------------------------------ bounds
\* Largest number of values of a series or of a group.
MaxVals == 3

\* ------------------------------------------------------------------ floats
\* A float is [k, n, d]: the rational n/d in lowest terms (d > 0) when k is
\* "fin", the infinity of the sign of n when k is "inf", NaN when k is "nan".
\* Finite arithmetic is exact: rounding and overflow of doubles are left out.
Abs(i) == IF i < 0 THEN -i ELSE i
Sign(i) == IF i > 0 THEN 1 ELSE IF i < 0 THEN -1 ELSE 0

RECURSIVE GCD(_, _)
GCD(a, b) == IF b = 0 THEN a ELSE GCD(b, a % b)

Fin(n, d) ==
    LET g == GCD(Abs(n), d) IN [k |-> "fin", n |-> n \div g, d |-> d \div g]
F(i) == Fin(i, 1)
Inf(s) == [k |-> "inf", n |-> s, d |-> 1]
np_nan == [k |-> "nan", n |-> 0, d |-> 1]
np_inf == Inf(1)
np_ninf == Inf(-1)
isfinite(x) == x.k = "fin"
isnan(x) == x.k = "nan"

FAdd(x, y) ==
    IF isnan(x) \/ isnan(y) THEN np_nan
    ELSE IF ~isfinite(x) /\ ~isfinite(y) THEN (IF x.n = y.n THEN x ELSE np_nan)
    ELSE IF ~isfinite(x) THEN x
    ELSE IF ~isfinite(y) THEN y
    ELSE Fin(x.n * y.d + y.n * x.d, x.d * y.d)
FNeg(x) == IF isnan(x) THEN np_nan ELSE [x EXCEPT !.n = -x.n]
FSub(x, y) == FAdd(x, FNeg(y))
FMul(x, y) ==
    IF isnan(x) \/ isnan(y) THEN np_nan
    ELSE IF isfinite(x) /\ isfinite(y) THEN Fin(x.n * y.n, x.d * y.d)
    ELSE IF x.n = 0 \/ y.n = 0 THEN np_nan
    ELSE Inf(Sign(x.n) * Sign(y.n))
\* x / y for a divisor that is finite and not zero.
FDiv(x, y) ==
    IF isnan(x) THEN np_nan
    ELSE IF ~isfinite(x) THEN Inf(x.n * Sign(y.n))
    ELSE Fin(x.n * y.d * Sign(y.n), x.d * Abs(y.n))
\* Comparisons: every comparison with NaN is false.
FLt(x, y) ==
    /\ ~isnan(x) /\ ~isnan(y)
    /\ IF isfinite(x) /\ isfinite(y) THEN x.n * y.d < y.n * x.d
       ELSE IF ~isfinite(x) /\ ~isfinite(y) THEN x.n < y.n
       ELSE IF ~isfinite(x) THEN x.n < 0
       ELSE y.n > 0
FLe(x, y) == ~isnan(x) /\ ~isnan(y) /\ (x = y \/ FLt(x, y))

RECURSIVE FSum(_)
FSum(q) == IF q = <<>> THEN F(0) ELSE FAdd(q[1], FSum(Tail(q)))

\* np.sort on values none of which is NaN.
RECURSIVE Insert(_, _)
Insert(x, q) ==
    IF q = <<>> THEN <<x>>
    ELSE IF FLe(x, q[1]) THEN <<x>> \o q
    ELSE <<q[1]>> \o Insert(x, Tail(q))
RECURSIVE Sorted(_)
Sorted(q) == IF q = <<>> THEN <<>> ELSE Insert(q[1], Sorted(Tail(q)))

\* The median of a non-empty sequence without NaN: the middle value, or the
\* mean of the two middle values.
Median(q) ==
    LET s == Sorted(q)
        n == Len(s)
    IN  IF n % 2 = 1 THEN s[(n + 1) \div 2]
        ELSE FDiv(FAdd(s[n \div 2], s[n \div 2 + 1]), F(2))

\* pd.to_numeric(cell, errors="coerce") on the text of a cell, as a float:
\* decimal integers, "inf" and "-inf" spell numbers, everything else is NaN.
AllDigits(c) == c # "" /\ \A i \in 1..Len(c) : IsDigit(SubSeq(c, i, i))
to_float(c) ==
    IF AllDigits(c) THEN F(ParseInt(c))
    ELSE IF Len(c) > 1 /\ SubSeq(c, 1, 1) = "-" /\ AllDigits(SubSeq(c, 2, Len(c)))
    THEN F(-ParseInt(SubSeq(c, 2, Len(c))))
    ELSE IF c = "inf" THEN np_inf
    ELSE IF c = "-inf" THEN np_ninf
    ELSE np_nan
to_numeric(series) == [i \in DOMAIN series |-> to_float(series[i])]

\* ------------------------------------------------------------ str methods
\* str.lower() on the letters A to Z.
LowerOf ==
    [ A |-> "a", B |-> "b", C |-> "c", D |-> "d", E |-> "e", F |-> "f", G |-> "g",
      H |-> "h", I |-> "i", J |-> "j", K |-> "k", L |-> "l", M |-> "m", N |-> "n",
      O |-> "o", P |-> "p", Q |-> "q", R |-> "r", S |-> "s", T |-> "t", U |-> "u",
      V |-> "v", W |-> "w", X |-> "x", Y |-> "y", Z |-> "z" ]
LowerChar(c) == IF c \in DOMAIN LowerOf THEN LowerOf[c] ELSE c
RECURSIVE Lower(_)
Lower(s) == IF s = "" THEN "" ELSE LowerChar(SubSeq(s, 1, 1)) \o Lower(SubSeq(s, 2, Len(s)))
EndsWith(s, suf) == Len(s) >= Len(suf) /\ SubSeq(s, Len(s) - Len(suf) + 1, Len(s)) = suf
StartsWith(s, pre) == Len(s) >= Len(pre) /\ SubSeq(s, 1, Len(pre)) = pre

\* ------------------------------------------------------ maybe_bps_to_mbps
Million == 1000000
HugeMedian == 10000

\* "v / 1e6".
DivMillion(v) == [i \in DOMAIN v |-> FDiv(v[i], F(Million))]

\* np.nanmedian(arr) if np.isfinite(arr).any() else np.nan: nanmedian leaves
\* out the NaN values only.
NanMedian(arr) ==
    IF \E i \in DOMAIN arr : isfinite(arr[i])
    THEN Median(SelectSeq(arr, LAMBDA x : ~isnan(x)))
    ELSE np_nan

\* 'if "bps" in nh or nh.endswith("_bps")' with nh = name_hint.lower().
HintCaseSensitive(name_hint) == Contains("bps", name_hint) \/ EndsWith(name_hint, "_bps")
HintSaysBps(name_hint) ==
    LET nh == Lower(name_hint) IN Contains("bps", nh) \/ EndsWith(nh, "_bps")

\* maybe_bps_to_mbps(series, name_hint) on the cells of a column.  The cells
\* are the text of the file: main's to_num and the to_numeric of the function
\* coerce them, and coercing twice is coercing once.
maybe_bps_to_mbps(series, name_hint) ==
    LET v == to_numeric(series) IN
    IF HintSaysBps(name_hint) THEN DivMillion(v)
    ELSE LET med == NanMedian(v) IN
         IF isfinite(med) /\ FLt(F(HugeMedian), med) THEN DivMillion(v) ELSE v

\* ---------------------------------------------------- mean, spread, CI95
\* Series.dropna(): the values that are not NaN; infinities stay.
dropna(x) == SelectSeq(x, LAMBDA a : ~isnan(a))

\* Series.mean() of a non-empty series without NaN.
Mean(x) == FDiv(FSum(x), F(Len(x)))

\* The square of Series.std(ddof=...) of a series of two values or more: the
\* deviations from the mean, squared and summed, over n - ddof.
SqDev(x) == LET m == Mean(x) IN [i \in DOMAIN x |-> FMul(FSub(x[i], m), FSub(x[i], m))]
Var(x, ddof) == FDiv(FSum(SqDev(x)), F(Len(x) - ddof))

\* A float moved off a centre by a square root: c + s * sqrt(h2), s in
\* {-1, 0, 1}.  Square roots are carried by their squares, which is enough to
\* compare values around one centre.
Plain(m) == [c |-> m, s |-> 0, h2 |-> F(0)]
Offset(m, s, h2) ==
    IF isnan(m) \/ isnan(h2) THEN Plain(np_nan)
    ELSE IF ~isfinite(m) THEN Plain(m)
    ELSE IF ~isfinite(h2) THEN Plain(Inf(s))
    ELSE IF h2.n = 0 THEN Plain(m)
    ELSE [c |-> m, s |-> s, h2 |-> h2]
\* a <= b for two values around the same centre.
RLe(a, b) ==
    /\ ~isnan(a.c) /\ ~isnan(b.c)
    /\ IF a.c # b.c THEN FLt(a.c, b.c)
       ELSE \/ a.s < b.s
            \/ a.s = b.s /\ a.s = 0
            \/ a.s = b.s /\ a.s = 1 /\ FLe(a.h2, b.h2)
            \/ a.s = b.s /\ a.s = -1 /\ FLe(b.h2, a.h2)

\* 1.96, in hundredths, and its square as a float.
Z95 == 196
Z95Sq == Fin(Z95 * Z95, 100 * 100)

\* The statistics of a series after its NaN cells are dropped (the tail of
\* mean_ci95, lines 180-189 of plot_p3 and 57-67 of plot_p4).
ci95(x) ==
    IF Len(x) = 0
    THEN [mean |-> np_nan, ci_lo |-> Plain(np_nan), ci_hi |-> Plain(np_nan), n |-> 0]
    ELSE LET m == Mean(x) IN
         IF Len(x) = 1 THEN [mean |-> m, ci_lo |-> Plain(m), ci_hi |-> Plain(m), n |-> 1]
         ELSE LET se2 == FDiv(Var(x, 1), F(Len(x)))
                  hw2 == FMul(Z95Sq, se2)
              IN  [mean |-> m, ci_lo |-> Offset(m, -1, hw2), ci_hi |-> Offset(m, 1, hw2),
                   n |-> Len(x)]

\* mean_ci95(x): plot_p4 coerces the cells itself; plot_p3 is handed cells
\* that main coerced.
mean_ci95(cells) == ci95(dropna(to_numeric(cells)))

\* mean_std(x) of plot_p5 and plot_p8; std is carried by its square.
mean_std(cells) ==
    LET v == dropna(to_numeric(cells))
        n == Len(v)
    IN  IF n = 0 THEN [mean |-> np_nan, std2 |-> np_nan, n |-> 0]
        ELSE IF n = 1 THEN [mean |-> v[1], std2 |-> F(0), n |-> 1]
        ELSE [mean |-> Mean(v), std2 |-> Var(v, 1), n |-> n]

\* ---------------------------------------------- aggregate_by_distance (p3)
\* A row of the sweep table, as far as the aggregation reads it: the
\* transport (the one field of the scenario label the input family varies),
\* the distance (a number: main dropped the other rows) and the metric cell.
scenario_label(row) == IF row.transport # "" THEN row.transport ELSE "scenario"

\* The scenario labels in sort order.
ScenarioOrder == <<"scenario", "tcp", "udp">>
Distances == {10, 20}

\* The rows of one group, in table order.
Group(rows, sc, dist) ==
    SelectSeq(rows, LAMBDA r : scenario_label(r) = sc /\ r.distance_m = dist)

\* g[metric]: the metric cell of every row of the group.
MetricOfDistinct(g) ==
    LET first == {i \in DOMAIN g : \A j \in 1..(i - 1) : g[j].m # g[i].m}
        keep == SelectSeq([i \in DOMAIN g |-> i], LAMBDA i : i \in first)
    IN  [k \in DOMAIN keep |-> g[keep[k]].m]
MetricOf(g) == [i \in DOMAIN g |-> g[i].m]

\* One output row; n is counted apart from mean_ci95 (line 203).
AggRow(sc, dist, g, hasMetric) ==
    LET st == IF hasMetric THEN mean_ci95(MetricOf(g)) ELSE ci95(<<>>)
        n == IF hasMetric THEN Len(dropna(to_numeric(MetricOf(g)))) ELSE 0
    IN  [scenario |-> sc, distance_m |-> dist, mean |-> st.mean,
         ci_lo |-> st.ci_lo, ci_hi |-> st.ci_hi, n |-> n]

\* The keys that have rows, sorted by scenario, then distance.
RECURSIVE SortedDistances(_)
SortedDistances(S) ==
    IF S = {} THEN <<>>
    ELSE LET lo == CHOOSE d \in S : \A e \in S : d <= e
         IN  <<lo>> \o SortedDistances(S \ {lo})
RECURSIVE Keys(_, _)
Keys(rows, scs) ==
    IF scs = <<>> THEN <<>>
    ELSE LET sc == scs[1]
             ds == {rows[i].distance_m : i \in {j \in DOMAIN rows : scenario_label(rows[j]) = sc}}
             sd == SortedDistances(ds)
         IN  [k \in DOMAIN sd |-> [sc |-> sc, dist |-> sd[k]]] \o Keys(rows, Tail(scs))

aggregate_by_distance(rows, hasMetric) ==
    LET keys == Keys(rows, ScenarioOrder) IN
    [k \in DOMAIN keys |->
        AggRow(keys[k].sc, keys[k].dist, Group(rows, keys[k].sc, keys[k].dist), hasMetric)]

\* --------------------------------------------------------- jain_index (p8)
\* "v = v[np.isfinite(v)]".
FiniteOnly(v) == SelectSeq(v, isfinite)

jain_index(vals) ==
    LET v == FiniteOnly(vals) IN
    IF Len(v) = 0 THEN np_nan
    ELSE LET s == FSum(v)
             ss == FSum([i \in DOMAIN v |-> FMul(v[i], v[i])])
         IN  IF FLe(ss, F(0)) THEN np_nan
             ELSE FDiv(FMul(s, s), FMul(F(Len(v)), ss))

\* ------------------------------------------------- perflow files (plot_p7)
\* Largest number of perflow files in the raw directory.
MaxFiles == 3

\* str.strip() for blanks.
RECURSIVE Strip(_)
Strip(s) ==
    IF s # "" /\ SubSeq(s, 1, 1) = " " THEN Strip(SubSeq(s, 2, Len(s)))
    ELSE IF s # "" /\ SubSeq(s, Len(s), Len(s)) = " " THEN Strip(SubSeq(s, 1, Len(s) - 1))
    ELSE s

\* normalize_plan(s): the mapping of the known spellings, s itself otherwise.
PlanAliases ==
    << <<"co", "cocanal">>, <<"cocanal", "cocanal">>, <<"cochannel", "cocanal">>,
       <<"co-channel", "cocanal">>, <<"sep", "separe">>, <<"separe", "separe">>,
       <<"separate", "separe">>, <<"separatechannel", "separe">>,
       <<"separate-channel", "separe">> >>
normalize_plan(s) ==
    LET k == Lower(Strip(s)) IN
    IF \E i \in DOMAIN PlanAliases : PlanAliases[i][1] = k
    THEN PlanAliases[CHOOSE i \in DOMAIN PlanAliases : PlanAliases[i][1] = k][2]
    ELSE k

\* s.split("_").
RECURSIVE SplitFrom(_, _, _)
SplitFrom(s, i, start) ==
    IF i > Len(s) THEN <<SubSeq(s, start, Len(s))>>
    ELSE IF SubSeq(s, i, i) = "_"
    THEN <<SubSeq(s, start, i - 1)>> \o SplitFrom(s, i + 1, i + 1)
    ELSE SplitFrom(s, i + 1, start)
Split(s) == SplitFrom(s, 1, 1)

\* glob("perflow_*.csv"): the match is case-sensitive.
Globbed(name) ==
    /\ Len(name) >= Len("perflow_") + Len(".csv")
    /\ StartsWith(name, "perflow_") /\ EndsWith(name, ".csv")

\* PERFLOW_RE.match(name), ignoring case:
\* ^perflow_(?P<plan>[^_]+)_n(?P<n>\d+)_run(?P<run>\d+)\.csv$
\* Between the prefix and the suffix stand exactly three parts separated by
\* "_": the plan, "n" and digits, "run" and digits.
NoMatch == [ok |-> FALSE, plan |-> "", n |-> 0, run |-> 0]
PERFLOW_RE(name) ==
    LET low == Lower(name) IN
    IF ~(Len(name) >= Len("perflow_") + Len(".csv")
         /\ StartsWith(low, "perflow_") /\ EndsWith(low, ".csv"))
    THEN NoMatch
    ELSE LET parts == Split(SubSeq(name, Len("perflow_") + 1, Len(name) - Len(".csv")))
         IN  IF Len(parts) # 3 THEN NoMatch
             ELSE LET p2 == Lower(parts[2])
                      p3 == Lower(parts[3])
                  IN  IF /\ parts[1] # ""
                         /\ StartsWith(p2, "n") /\ AllDigits(SubSeq(p2, 2, Len(p2)))
                         /\ StartsWith(p3, "run") /\ AllDigits(SubSeq(p3, 4, Len(p3)))
                      THEN [ok |-> TRUE, plan |-> parts[1],
                            n |-> ParseInt(SubSeq(p2, 2, Len(p2))),
                            run |-> ParseInt(SubSeq(p3, 4, Len(p3)))]
                      ELSE NoMatch

\* The first loop: chosen[key] = (run, path), over the sorted paths.  A later
\* file replaces the choice only with a greater run number.
ReplacesOnTie(run, old) == run >= old
Replaces(run, old) == run > old
RECURSIVE Choose(_, _)
Choose(paths, chosen) ==
    IF paths = <<>> THEN chosen
    ELSE LET p == paths[1]
             m == PERFLOW_RE(p.name)
             key == [plan |-> normalize_plan(m.plan), n |-> m.n]
         IN  IF ~m.ok THEN Choose(Tail(paths), chosen)
             ELSE IF key \notin DOMAIN chosen \/ Replaces(m.run, chosen[key].run)
             THEN Choose(Tail(paths),
                         [k \in DOMAIN chosen \cup {key} |->
                             IF k = key THEN [run |-> m.run, path |-> p] ELSE chosen[k]])
             ELSE Choose(Tail(paths), chosen)

\* df.get(c, np.nan) coerced: the column, or NaN in every row.
GetNumeric(t, c) ==
    IF HasCol(t, c) THEN NumCol(t, c) ELSE [r \in DOMAIN t.rows |-> NaN]

\* The body of the second loop for a file that has the goodputbps column: the
\* three columns coerced, the rows lacking one of them dropped.
PerflowFrame(t) ==
    LET g == GetNumeric(t, "goodputbps")
        c == GetNumeric(t, "cellId")
        s == GetNumeric(t, "staId")
        all == [r \in DOMAIN t.rows |-> [cellId |-> c[r], staId |-> s[r], goodputbps |-> g[r]]]
    IN  SelectSeq(all, LAMBDA r : r.cellId.ok /\ r.staId.ok /\ r.goodputbps.ok)

\* read_perflow_latest(): the dictionary, or the error of pd.read_csv on a
\* chosen file that holds no line.
read_perflow_latest(files) ==
    LET chosen == Choose(SelectSeq(files, LAMBDA f : Globbed(f.name)), <<>>)
        empty == {k \in DOMAIN chosen : PdReadCsv(chosen[k].path.lines).kind = "raise"}
        kept == {k \in DOMAIN chosen :
                    HasCol(PdReadCsv(chosen[k].path.lines).df, "goodputbps")}
    IN  IF empty # {} THEN [kind |-> "raise", err |-> "EmptyDataError", out |-> <<>>]
        ELSE [kind |-> "ok", err |-> "none",
              out |-> [k \in kept |-> PerflowFrame(PdReadCsv(chosen[k].path.lines).df)]]

\* mbps(x) = x / 1e6 on a coerced cell, as a float.
mbps(cell) == IF cell.ok THEN FDiv(F(cell.v), F(Million)) ELSE np_nan

\* _persta_df(perflow, n): the frames of the plans at n stations per cell,
\* concatenated, then one row per (plan, cellId, staId) with the mean.
PlanOrder == <<"cocanal", "separe">>
PerstaRows(perflow, n) ==
    LET RECURSIVE Cat(_)
        Cat(plans) ==
            IF plans = <<>> THEN <<>>
            ELSE LET k == [plan |-> plans[1], n |-> n] IN
                 (IF k \in DOMAIN perflow
                  THEN [i \in DOMAIN perflow[k] |->
                           [plan |-> k.plan, cellId |-> perflow[k][i].cellId.v,
                            staId |-> perflow[k][i].staId.v,
                            goodputMbps |-> mbps(perflow[k][i].goodputbps)]]
                  ELSE <<>>) \o Cat(Tail(plans))
    IN  Cat(PlanOrder)
_persta_df(perflow, n) ==
    LET rows == PerstaRows(perflow, n)
        keys == {[plan |-> rows[i].plan, cellId |-> rows[i].cellId, staId |-> rows[i].staId] :
                    i \in DOMAIN rows}
    IN  IF \A k \in DOMAIN perflow : k.n # n THEN [some |-> FALSE, rows |-> {}]
        ELSE [some |-> TRUE,
              rows |->
                {[plan |-> k.plan, cellId |-> k.cellId, staId |-> k.staId,
                  goodputMbps |->
                    Mean(LET g == SelectSeq(rows, LAMBDA r :
                                      r.plan = k.plan /\ r.cellId = k.cellId /\ r.staId = k.staId)
                         IN  [i \in DOMAIN g |-> g[i].goodputMbps])] : k \in keys}]

\* ------------------------------------------------------------------ inputs
RECURSIVE SeqsUpTo(_, _)
SeqsUpTo(S, n) ==
    IF n = 0 THEN {<<>>}
    ELSE LET shorter == SeqsUpTo(S, n - 1) IN
         shorter \cup {Append(q, x) : q \in {r \in shorter : Len(r) = n - 1}, x \in S}

\* Cells of a goodput column: missing, infinite, megabits, the threshold and
\* its neighbour, bits per second.
GoodputCells == {"", "inf", "-inf", "50", "10000", "10001", "20000000"}
\* The names main resolves the BE goodput from (line 228), and other hints.
GoodputBE == <<"goodputBE", "goodputBE_bps", "goodputBEbps", "goodputBE_Mbps", "goodputBe">>
NameHints == Range(GoodputBE) \cup {"", "GOODPUT_BPS", "rate_bp_s"}
MaybeInputs == [series : SeqsUpTo(GoodputCells, MaxVals), name_hint : NameHints]

\* The table plot_p8 main holds: the mode column and at most one of the
\* goodput names, with the cells of its rows.
P8Cells == {"", "50", "80", "20000000"}
P8Inputs ==
    {Table(<<"mode">>, <<>>)} \cup
    {Table(<<"mode", c>>, [i \in DOMAIN q |-> <<"ON", q[i]>>]) :
        c \in Range(GoodputBE), q \in SeqsUpTo(P8Cells, MaxVals)}

StatCells == {"", "abc", "inf", "-inf", "1", "3", "5"}
SeriesInputs == SeqsUpTo(StatCells, MaxVals)

AggCells == {"", "inf", "1", "5"}
AggRows ==
    [transport : {"udp"}, distance_m : Distances, m : AggCells]
        \cup [transport : {""}, distance_m : {10}, m : AggCells]
AggInputs ==
    [rows : SeqsUpTo(AggRows, MaxVals), hasMetric : {TRUE}]
        \cup [rows : SeqsUpTo({r \in AggRows : r.m = ""}, MaxVals), hasMetric : {FALSE}]

JainVals == {np_nan, np_inf, F(-1), F(0), F(1), F(3)}
JainInputs == SeqsUpTo(JainVals, MaxVals)

\* Names of the raw directory, in the order sorted() gives them.
PerflowNames ==
    << "perflow_CO_n10_run3.csv", "perflow_co_N10_RUN1.csv", "perflow_co_n10_run2.csv",
       "perflow_co_n5_run1.csv", "perflow_cocanal_n10_run2.csv", "perflow_notes.csv",
       "perflow_sep_n10_run10.csv", "perflow_sep_n10_run9.csv",
       "perflow_sep_x_n10_run1.csv" >>
\* What a file holds: per-flow rows (two for one station, one without a
\* station number), a table without the goodputbps column, or nothing.
PerflowKinds == {"rows", "nogoodput", "empty"}
PerflowLines(i, kind) ==
    CASE kind = "rows" ->
            << <<"cellId", "staId", "goodputbps">>,
               <<"1", "1", ToString(i) \o "000000">>,
               <<"1", "1", ToString(i + 2) \o "000000">>,
               <<"2", "", ToString(i) \o "000000">> >>
      [] kind = "nogoodput" -> << <<"cellId", "staId", "rxBytes">>, <<"1", "1", "1500">> >>
      [] kind = "empty" -> <<>>
PerflowDir(S, kinds) ==
    LET idx == SortedDistances(S) IN
    [j \in DOMAIN idx |-> [name |-> PerflowNames[idx[j]], lines |-> PerflowLines(idx[j], kinds[idx[j]])]]
PerflowInputs ==
    UNION {{PerflowDir(S, kinds) : kinds \in [S -> PerflowKinds]} :
              S \in {T \in SUBSET DOMAIN PerflowNames : Cardinality(T) <= MaxFiles}}

\* The station count the per-station plots are drawn for (main, n=10).
PerstaN == 10

\* ----------------------------------------------------------------- actions
MaybeBps ==
    /\ tfn = "maybe_bps_to_mbps" /\ tpc = "start"
    /\ tout' = maybe_bps_to_mbps(tin.series, tin.name_hint)
    /\ tpc' = "done"
    /\ UNCHANGED <<tfn, tin, legacy, df, tlog, tcode, runVars, concVars>>
MeanCi95 ==
    /\ tfn = "mean_ci95" /\ tpc = "start"
    /\ tout' = mean_ci95(tin)
    /\ tpc' = "done"
    /\ UNCHANGED <<tfn, tin, legacy, df, tlog, tcode, runVars, concVars>>
MeanStd ==
    /\ tfn = "mean_std" /\ tpc = "start"
    /\ tout' = mean_std(tin)
    /\ tpc' = "done"
    /\ UNCHANGED <<tfn, tin, legacy, df, tlog, tcode, runVars, concVars>>
Aggregate ==
    /\ tfn = "aggregate_by_distance" /\ tpc = "start"
    /\ tout' = aggregate_by_distance(tin.rows, tin.hasMetric)
    /\ tpc' = "done"
    /\ UNCHANGED <<tfn, tin, legacy, df, tlog, tcode, runVars, concVars>>
JainIndex ==
    /\ tfn = "jain_index" /\ tpc = "start"
    /\ tout' = jain_index(tin)
    /\ tpc' = "done"
    /\ UNCHANGED <<tfn, tin, legacy, df, tlog, tcode, runVars, concVars>>

\* plot_p8 main, lines 228 and 240-251: the BE goodput column is resolved,
\* coerced and converted.  An unresolved column ends main with the ValueError.
P8Pick ==
    /\ tfn = "p8_main" /\ tpc = "start"
    /\ tout' = pick_col(tin, GoodputBE, TRUE)
    /\ tpc' = IF tout'.kind = "ok" THEN "picked" ELSE "done"
    /\ UNCHANGED <<tfn, tin, legacy, df, tlog, tcode, runVars, concVars>>
P8Goodput ==
    /\ tfn = "p8_main" /\ tpc = "picked"
    /\ df' = maybe_bps_to_mbps(Col(tin, tout.col), tout.col)
    /\ tpc' = "done"
    /\ UNCHANGED <<tfn, tin, legacy, tout, tlog, tcode, runVars, concVars>>

\* plot_p7 main, lines 416-424: the latest per-flow files are read; with a
\* non-empty dictionary the per-station frame is built for n = 10.
ReadPerflow ==
    /\ tfn = "p7_main" /\ tpc = "start"
    /\ tout' = read_perflow_latest(tin)
    /\ tpc' = IF tout'.kind = "ok" /\ DOMAIN tout'.out # {} THEN "read" ELSE "done"
    /\ UNCHANGED <<tfn, tin, legacy, df, tlog, tcode, runVars, concVars>>
PerstaDf ==
    /\ tfn = "p7_main" /\ tpc = "read"
    /\ df' = _persta_df(tout.out, PerstaN)
    /\ tpc' = "done"
    /\ UNCHANGED <<tfn, tin, legacy, tout, tlog, tcode, runVars, concVars>>

\* ------------------------------------------------------ the specification
StatInputs(fn) ==
    CASE fn = "maybe_bps_to_mbps" -> MaybeInputs
      [] fn = "p8_main" -> P8Inputs
      [] fn \in {"mean_ci95", "mean_std"} -> SeriesInputs
      [] fn = "aggregate_by_distance" -> AggInputs
      [] fn = "jain_index" -> JainInputs
      [] fn = "p7_main" -> PerflowInputs

StatEntryPoints ==
    {"maybe_bps_to_mbps", "p8_main", "mean_ci95", "mean_std", "aggregate_by_distance",
     "jain_index", "p7_main"}

StatInit ==
    /\ RunIdle
    /\ ConcIdle
    /\ tfn \in StatEntryPoints
    /\ tin \in StatInputs(tfn)
    /\ legacy = FALSE
    /\ tpc = "start"
    /\ df = NoTable
    /\ tout = NoOutcome
    /\ tlog = <<>>
    /\ tcode = -1

StatNext ==
    \/ MaybeBps
    \/ P8Pick
    \/ P8Goodput
    \/ MeanCi95
    \/ MeanStd
    \/ Aggregate
    \/ JainIndex
    \/ ReadPerflow
    \/ PerstaDf

StatSpec == StatInit /\ [][StatNext]_vars

\* ====================================================== claims, statistics
\* ---------------------------------------------------------- unit coercion
MaybeDone == tfn = "maybe_bps_to_mbps" /\ tpc = "done"
P8Converted == tfn = "p8_main" /\ tpc = "done" /\ tout.kind = "ok"

\* The hint holds the token "bps", in whatever case.
HasBpsToken(h) == \E i \in 1..(Len(h) - 2) : Lower(SubSeq(h, i, i + 2)) = "bps"

\* Every value of the series, divided by 1e6.
AllDivided(series, out) ==
    /\ Len(out) = Len(series)
    /\ \A i \in DOMAIN out : out[i] = FDiv(to_float(series[i]), F(Million))
Untouched(series, out) ==
    /\ Len(out) = Len(series)
    /\ \A i \in DOMAIN out : out[i] = to_float(series[i])

\* The median of the finite values of a series, NaN when it has none.
FiniteMedian(series) ==
    LET f == SelectSeq(to_numeric(series), isfinite) IN
    IF f = <<>> THEN np_nan ELSE Median(f)
Between(x, lo, hi) == FLe(F(lo), x) /\ FLe(x, F(hi))

\* C21: whenever the name hint contains "bps" (case-insensitive substring),
\* maybe_bps_to_mbps divides every value of the series by 1e6, whatever the
\* values and their median are; this holds for the direct call and for the
\* call main makes with the resolved column name.
C21_BpsHintAlwaysDivides ==
    /\ (MaybeDone /\ HasBpsToken(tin.name_hint)) => AllDivided(tin.series, tout)
    /\ (P8Converted /\ HasBpsToken(tout.col)) => AllDivided(Col(tin, tout.col), df)

\* C21 witness: a series of small values (median 50) under an upper-case
\* hint has been divided.
C21_Witness ==
    /\ MaybeDone
    /\ tin.name_hint = "GOODPUT_BPS"
    /\ tin.series = <<"50", "50", "inf">>
    /\ tout = <<Fin(1, 20000), Fin(1, 20000), np_inf>>

\* C22: when the hint carries no unit token, the series is divided by 1e6
\* if and only if the median of its finite values is strictly greater than
\* 1e4; NaN and infinite values have no part in the decision.
C22_FiniteMedianDecides ==
    (MaybeDone /\ ~HasBpsToken(tin.name_hint)) =>
        IF FLt(F(HugeMedian), FiniteMedian(tin.series))
        THEN AllDivided(tin.series, tout)
        ELSE Untouched(tin.series, tout)

\* C23: for the goodput column main resolves and converts, a series already
\* in megabits (median between 10 and 100) comes back unchanged and a series
\* in bits per second (median between 1e7 and 1e9) comes back divided by 1e6.
C23_CoercerIdempotentSafe ==
    P8Converted =>
        LET med == FiniteMedian(Col(tin, tout.col)) IN
        /\ Between(med, 10, 100) => Untouched(Col(tin, tout.col), df)
        /\ Between(med, 10000000, 1000000000) => AllDivided(Col(tin, tout.col), df)

\* ------------------------------------------------------- group statistics
CiDone == tfn = "mean_ci95" /\ tpc = "done"
StdDone == tfn = "mean_std" /\ tpc = "done"
AggDone == tfn = "aggregate_by_distance" /\ tpc = "done"

\* The square of the sample standard deviation of x (two values or more),
\* from the sums: (n * sum(x^2) - sum(x)^2) / (n * (n - 1)).
SampleVar(x) ==
    LET n == Len(x)
        s == FSum(x)
        q == FSum([i \in DOMAIN x |-> FMul(x[i], x[i])])
    IN  FDiv(FSub(FMul(F(n), q), FMul(s, s)), F(n * (n - 1)))

\* (mean, ci_lo, ci_hi) of n values x satisfy the invariant of the interval.
CiInvariant(st, n, x) ==
    /\ n >= 2 =>
          /\ RLe(st.ci_lo, Plain(st.mean)) /\ RLe(Plain(st.mean), st.ci_hi)
          /\ st.ci_lo.c = st.mean /\ st.ci_hi.c = st.mean
          /\ st.ci_lo.s = -st.ci_hi.s
          /\ st.ci_lo.h2 = st.ci_hi.h2
          /\ st.ci_hi.h2 = FDiv(FMul(Z95Sq, SampleVar(x)), F(n))
    /\ n = 1 => ~isnan(st.mean) /\ st.ci_lo = Plain(st.mean) /\ st.ci_hi = Plain(st.mean)
    /\ n = 0 => isnan(st.mean) /\ isnan(st.ci_lo.c) /\ isnan(st.ci_hi.c)

\* C24: mean_ci95 returns, for n >= 2 values, ci_lo <= mean <= ci_hi with
\* ci_hi - mean = mean - ci_lo = 1.96 * stdDev / sqrt(n); for one value
\* ci_lo = ci_hi = mean; for none, NaN for all three.  The same holds of
\* every row aggregate_by_distance reports.
C24_CiAroundMean ==
    /\ CiDone => CiInvariant(tout, tout.n, dropna(to_numeric(tin)))
    /\ AggDone =>
          \A k \in DOMAIN tout :
              CiInvariant(tout[k], tout[k].n,
                          dropna(to_numeric(MetricOf(Group(tin.rows, tout[k].scenario,
                                                           tout[k].distance_m)))))

\* C25: n is the number of finite metric values of the group, and the mean is
\* taken over those finite values alone: NaN, +inf and -inf are all dropped;
\* the n aggregate_by_distance reports is the number of values mean_ci95 used.
FiniteValues(cells) == SelectSeq(to_numeric(cells), isfinite)
MeanOfFinite(cells) ==
    IF FiniteValues(cells) = <<>> THEN np_nan
    ELSE FDiv(FSum(FiniteValues(cells)), F(Len(FiniteValues(cells))))
C25_OnlyFiniteValuesCount ==
    /\ (CiDone \/ StdDone) =>
          /\ tout.n = Len(FiniteValues(tin))
          /\ tout.mean = MeanOfFinite(tin)
    /\ AggDone =>
          \A k \in DOMAIN tout :
              LET cells == MetricOf(Group(tin.rows, tout[k].scenario, tout[k].distance_m)) IN
              /\ tout[k].n = (IF tin.hasMetric THEN Len(FiniteValues(cells)) ELSE 0)
              /\ tout[k].n = (IF tin.hasMetric THEN mean_ci95(cells).n ELSE 0)
              /\ tout[k].mean = (IF tin.hasMetric THEN MeanOfFinite(cells) ELSE np_nan)


\* ------------------------------------------------------ pooled aggregation
RECURSIVE SumOver(_, _)
SumOver(S, val) ==
    IF S = {} THEN F(0)
    ELSE LET i == CHOOSE j \in S : TRUE IN FAdd(val[i], SumOver(S \ {i}, val))

\* The mean of the values val[i], i in S, that are numbers; NaN without any.
PooledMean(S, val) ==
    LET used == {i \in S : ~isnan(val[i])} IN
    IF used = {} THEN np_nan ELSE FDiv(SumOver(used, val), F(Cardinality(used)))

PerstaDone == tfn = "p7_main" /\ tpc = "done" /\ tout.kind = "ok" /\ DOMAIN tout.out # {}

JainDone == tfn = "jain_index" /\ tpc = "done"

\* The input values are all the same number, not zero.
AllEqualNonZero(v) ==
    /\ v # <<>> /\ ~isnan(v[1]) /\ v[1] # F(0)
    /\ \A i \in DOMAIN v : v[i] = v[1]
\* One value of the input is a number other than zero, the others are zero.
OneNonZero(v) ==
    \E i \in DOMAIN v :
        /\ ~isnan(v[i]) /\ v[i] # F(0)
        /\ \A j \in DOMAIN v \ {i} : v[j] = F(0)
AllZero(v) == \A i \in DOMAIN v : v[i] = F(0)

\* C27: jain_index returns exactly 1.0 for a non-empty input of equal values,
\* 1/n when exactly one of the n values is non-zero and the others are zero,
\* and NaN for an empty input and for an all-zero input.
C27_JainSpecialCases ==
    JainDone =>
        /\ AllEqualNonZero(tin) => tout = F(1)
        /\ OneNonZero(tin) => tout = Fin(1, Len(tin))
        /\ AllZero(tin) => isnan(tout)

\* (sum v)^2 / (n * sum v^2) over the values v, NaN without values or with a
\* zero sum of squares.
JainOver(v) ==
    LET s == FSum(v)
        ss == FSum([i \in DOMAIN v |-> FMul(v[i], v[i])])
    IN  IF v = <<>> \/ ss = F(0) THEN np_nan
        ELSE FDiv(FMul(s, s), FMul(F(Len(v)), ss))
NonNegativeFinite(v) == SelectSeq(v, LAMBDA a : isfinite(a) /\ a.n >= 0)

\* C28: jain_index is (sum v)^2 / (n * sum v^2) over exactly the finite,
\* non-negative input values, n being their count; the score is NaN or lies
\* in [1/n, 1].
C28_JainOverNonNegativeFinite ==
    JainDone =>
        LET v == NonNegativeFinite(tin) IN
        /\ tout = JainOver(v)
        /\ isnan(tout) \/ (FLe(Fin(1, Len(v)), tout) /\ FLe(tout, F(1)))


\* ------------------------------------------------------ latest per-flow run
P7Read == tfn = "p7_main" /\ tpc # "start"

\* The files of the directory whose names follow the pattern, each with its
\* position in name order, the (plan, nStaPerCell) key it maps to and its run.
PerflowIndex ==
    LET all == {[i |-> i, m |-> PERFLOW_RE(tin[i].name)] :
                   i \in {j \in DOMAIN tin : Globbed(tin[j].name)}}
    IN  {[i |-> a.i, key |-> [plan |-> normalize_plan(a.m.plan), n |-> a.m.n], run |-> a.m.run] :
            a \in {b \in all : b.m.ok}}
PerflowKeys(M) == {f.key : f \in M}
HighestRun(M, k) ==
    {f.i : f \in {g \in M : g.key = k /\ \A h \in M : h.key = k => h.run <= g.run}}
\* Among the files of the highest run, the first in name order.
Latest(M, k) == CHOOSE i \in HighestRun(M, k) : \A j \in HighestRun(M, k) : i <= j

HoldsNothing(i) == \A l \in DOMAIN tin[i].lines : tin[i].lines[l] = <<>>
HasGoodput(i) ==
    ~HoldsNothing(i) /\ \E c \in DOMAIN tin[i].lines[1] : tin[i].lines[1][c] = "goodputbps"

\* The rows of file i in which cellId, staId and goodputbps are numbers.
CellOf(i, l, name) ==
    IF \E c \in DOMAIN tin[i].lines[1] : tin[i].lines[1][c] = name
    THEN tin[i].lines[l][CHOOSE c \in DOMAIN tin[i].lines[1] : tin[i].lines[1][c] = name]
    ELSE ""
NumericRows(i) ==
    LET ls == SelectSeq([l \in 1..(Len(tin[i].lines) - 1) |-> l + 1],
                        LAMBDA l : /\ AllDigits(CellOf(i, l, "cellId"))
                                   /\ AllDigits(CellOf(i, l, "staId"))
                                   /\ AllDigits(CellOf(i, l, "goodputbps")))
    IN  [r \in DOMAIN ls |->
            [cellId |-> Num(ParseInt(CellOf(i, ls[r], "cellId"))),
             staId |-> Num(ParseInt(CellOf(i, ls[r], "staId"))),
             goodputbps |-> Num(ParseInt(CellOf(i, ls[r], "goodputbps")))]]

\* C30, as stated: for each key, read_perflow_latest returns the data of the
\* file with the highest run number among the files that map to the key;
\* other names are ignored, aliases of a plan share a key.
C30_LatestRunPerKey ==
    P7Read =>
        LET M == PerflowIndex IN
        /\ tout.kind = "ok"
        /\ DOMAIN tout.out = PerflowKeys(M)
        /\ \A k \in PerflowKeys(M) :
              \E i \in HighestRun(M, k) : ~HoldsNothing(i) /\ tout.out[k] = NumericRows(i)

\* C30, amended: the key goes to the file of the highest run (the first in
\* name order among equals); the key is returned with the numeric rows of that
\* file when the file has a goodputbps column and is left out otherwise; a
\* chosen file that holds no line makes the call fail.
C30_LatestRunWithGoodput ==
    P7Read =>
        LET M == PerflowIndex
            latest == {[key |-> k, i |-> Latest(M, k)] : k \in PerflowKeys(M)}
        IN  IF \E l \in latest : HoldsNothing(l.i)
            THEN tout.kind = "raise"
            ELSE /\ tout.kind = "ok"
                 /\ DOMAIN tout.out = {l.key : l \in {x \in latest : HasGoodput(x.i)}}
                 /\ \A l \in latest : HasGoodput(l.i) => tout.out[l.key] = NumericRows(l.i)

\* C30 witness: aliases "CO", "co" and "cocanal" compete for (cocanal, 10);
\* run 3 wins over the two files of run 2, and the other name is ignored.
C30_Witness ==
    /\ P7Read
    /\ {tin[i].name : i \in DOMAIN tin} =
          {"perflow_CO_n10_run3.csv", "perflow_co_n10_run2.csv", "perflow_cocanal_n10_run2.csv"}
    /\ tout.kind = "ok"
    /\ DOMAIN tout.out = {[plan |-> "cocanal", n |-> 10]}
    /\ tout.out[[plan |-> "cocanal", n |-> 10]][1].goodputbps = Num(1000000)


\* ------------------------------------------- two calls side by side (p2)
\* Two calls of plot_p2's save_figure_safe with the same out_dir and stem run
\* as two processes whose steps interleave freely.  The directory maps a file name
\* to an inode; a file's content is the sequence of chunks in it, each tagged
\* with the call that wrote it, so that a truncated or a mixed file shows.
Writers == {"A", "B"}
MaxConcRetries == 1

ConcFormats == {"html", "png"}
ConcTarget(f) == [tmp |-> 0, ext |-> f]
TempName(i) == [tmp |-> i, ext |-> ""]
NoName == [tmp |-> 0, ext |-> ""]
\* Every call creates at most one temp file for the HTML and one per PNG attempt.
TempNames == {TempName(i) : i \in 1..(Cardinality(Writers) * (MaxConcRetries + 1))}
DirNames == {ConcTarget(f) : f \in ConcFormats} \cup TempNames

\* The directory entry of a temp file that its call gave up.
LeftBehind == -1

Full(tag) == [i \in 1..NChunks |-> tag]

\* tmp.write at the descriptor's own offset.
WriteAt(content, off, tag) ==
    IF off < Len(content)
    THEN [content EXCEPT ![off + 1] = tag]
    ELSE content \o [i \in 1..(off - Len(content)) |-> "hole"] \o <<tag>>

\* A temp file name that every call would use.
TempFileFixed(existing) == {TempName(1)}

\* NamedTemporaryFile(dir=...): a random name, opened with O_EXCL, so never
\* the name of a file that is in the directory.  Names are interchangeable:
\* the free name of least number stands for any free name.
TempFile(existing) ==
    LET free == TempNames \ existing
    IN  {n \in free : \A m \in free : n.tmp <= m.tmp}

Existing == {n \in DirNames : dirents[n] # 0}

\* An inode nobody names and nobody has open is given out again.
InodeIds == 1..Cardinality(DirNames)
InUse == {dirents[n] : n \in DirNames} \cup {callers[w].fd : w \in Writers}
FreeInode == CHOOSE i \in InodeIds \ InUse : \A j \in InodeIds \ InUse : i <= j

NewCall ==
    [pc |-> "html", fmt |-> "html", name |-> NoName, fd |-> 0, off |-> 0,
     attempt |-> 0, html |-> "none", png |-> "none", raised |-> FALSE]

\* The for-else branch of the retry loop: the message, raised in strict mode.
Exhausted(c) == [c EXCEPT !.pc = "done", !.png = "failed", !.raised = strict]

\* An exception while the HTML is made: the handler warns and the call goes
\* on to the PNG.
HtmlRaised(c) ==
    [c EXCEPT !.pc = "import", !.html = "failed", !.name = NoName, !.fd = 0]

\* An exception of the atomic write: the temp file stays (delete=False); the
\* PNG handler of the retry loop sleeps.
WriteRaised(c) ==
    IF c.fmt = "html"
    THEN HtmlRaised(c)
    ELSE [c EXCEPT !.pc = "sleep", !.name = NoName, !.fd = 0]

\* The atomic write returned.
WriteReturned(c) ==
    IF c.fmt = "html"
    THEN [c EXCEPT !.pc = "import", !.html = "written", !.name = NoName, !.fd = 0]
    ELSE [c EXCEPT !.pc = "done", !.png = "written", !.name = NoName, !.fd = 0]

\* fig.to_html(...), which may raise.
ConcToHtml ==
    \E w \in Writers :
        /\ callers[w].pc = "html"
        /\ \/ callers' = [callers EXCEPT ![w].pc = "mkdir", ![w].fmt = "html"]
           \/ callers' = [callers EXCEPT ![w] = HtmlRaised(@)]
        /\ UNCHANGED <<dirents, inodes, tblVars, runVars>>

\* path.parent.mkdir(parents=True, exist_ok=True)
ConcMkdir ==
    \E w \in Writers :
        /\ callers[w].pc = "mkdir"
        /\ callers' = [callers EXCEPT ![w].pc = "create"]
        /\ UNCHANGED <<dirents, inodes, tblVars, runVars>>

\* NamedTemporaryFile(...): a new empty file under a name of its own, or
\* OSError.  Opening a name that exists would truncate that file.
ConcCreate ==
    \E w \in Writers :
        /\ callers[w].pc = "create"
        /\ \/ \E n \in TempFile(Existing) :
                 LET id == IF dirents[n] > 0 THEN dirents[n] ELSE FreeInode IN
                 /\ dirents' = [dirents EXCEPT ![n] = id]
                 /\ inodes' = [inodes EXCEPT ![id] = <<>>]
                 /\ callers' = [callers EXCEPT ![w].pc = "write", ![w].name = n,
                                               ![w].fd = id, ![w].off = 0]
           \/ /\ callers' = [callers EXCEPT ![w] = WriteRaised(@)]
              /\ UNCHANGED <<dirents, inodes>>
        /\ UNCHANGED <<tblVars, runVars>>

\* tmp.write(data), one chunk at a time.  After OSError the temp file
\* stays in the directory; no call opens it again, and what it holds is not
\* followed any further.
ConcWriteChunk ==
    \E w \in Writers :
        /\ callers[w].pc = "write"
        /\ callers[w].off < NChunks
        /\ \/ /\ inodes' = [inodes EXCEPT ![callers[w].fd] = WriteAt(@, callers[w].off, w)]
              /\ UNCHANGED dirents
              /\ callers' = [callers EXCEPT ![w].off = @ + 1]
           \/ /\ callers' = [callers EXCEPT ![w] = WriteRaised(@)]
              /\ dirents' = [dirents EXCEPT ![callers[w].name] = LeftBehind]
              /\ inodes' = [inodes EXCEPT ![callers[w].fd] = <<>>]
        /\ UNCHANGED <<tblVars, runVars>>

\* Leaving the with block closes the temp file.
ConcClose ==
    \E w \in Writers :
        /\ callers[w].pc = "write"
        /\ callers[w].off = NChunks
        /\ callers' = [callers EXCEPT ![w].pc = "replace"]
        /\ UNCHANGED <<dirents, inodes, tblVars, runVars>>

\* The file the target named before the rename is gone with its content,
\* unless it is the renamed file itself or a call still has it open.
Unlinked(was, now) ==
    IF was = 0 \/ was = now \/ was \in {callers[w].fd : w \in Writers}
    THEN inodes
    ELSE [inodes EXCEPT ![was] = <<>>]

\* Path(tmp.name).replace(path): the target name now points at the temp
\* file's inode and the temp name is gone; FileNotFoundError if the temp name
\* is no longer there.
ConcReplace ==
    \E w \in Writers :
        LET c == callers[w] IN
        /\ c.pc = "replace"
        /\ IF dirents[c.name] = 0
           THEN /\ callers' = [callers EXCEPT ![w] = WriteRaised(@)]
                /\ UNCHANGED <<dirents, inodes>>
           ELSE /\ dirents' = [dirents EXCEPT ![ConcTarget(c.fmt)] = dirents[c.name],
                                              ![c.name] = 0]
                /\ inodes' = Unlinked(dirents[ConcTarget(c.fmt)], dirents[c.name])
                /\ callers' = [callers EXCEPT ![w] = WriteReturned(@)]
        /\ UNCHANGED <<tblVars, runVars>>

\* import kaleido, then the first pass of the retry loop; without kaleido the
\* warning, raised in strict mode.
ConcImport ==
    \E w \in Writers :
        /\ callers[w].pc = "import"
        /\ callers' =
              [callers EXCEPT ![w] =
                  IF ~kaleido THEN [@ EXCEPT !.pc = "done", !.png = "skipped", !.raised = strict]
                  ELSE IF max_retries = 0 THEN Exhausted(@)
                  ELSE [@ EXCEPT !.pc = "render", !.fmt = "png", !.attempt = 1]]
        /\ UNCHANGED <<dirents, inodes, tblVars, runVars>>

\* pio.to_image(...), which may raise.
ConcToImage ==
    \E w \in Writers :
        /\ callers[w].pc = "render"
        /\ \/ callers' = [callers EXCEPT ![w].pc = "mkdir"]
           \/ callers' = [callers EXCEPT ![w].pc = "sleep"]
        /\ UNCHANGED <<dirents, inodes, tblVars, runVars>>

\* time.sleep(retry_sleep_s), then the next pass or the end of the loop.
ConcSleep ==
    \E w \in Writers :
        /\ callers[w].pc = "sleep"
        /\ callers' =
              [callers EXCEPT ![w] =
                  IF @.attempt < max_retries
                  THEN [@ EXCEPT !.pc = "render", !.attempt = @ + 1]
                  ELSE Exhausted(@)]
        /\ UNCHANGED <<dirents, inodes, tblVars, runVars>>

\* Both calls are about to start; the targets are absent or hold what an
\* earlier run wrote.
ConcInit ==
    /\ TblIdle
    /\ RunAtRest
    /\ script = "p2"
    /\ strict \in BOOLEAN
    /\ kaleido \in BOOLEAN
    /\ max_retries \in 0..MaxConcRetries
    /\ inp = CHOOSE i \in Inputs("p3") : i.t1 = "rows"
    /\ prev \in {Absent, OldPayload}
    /\ callers = [w \in Writers |-> NewCall]
    /\ inodes = [i \in InodeIds |-> IF prev = Absent \/ i > Cardinality(ConcFormats)
                                     THEN <<>> ELSE Full("old")]
    /\ dirents = [n \in DirNames |->
                     IF prev = Absent \/ n \in TempNames THEN 0
                     ELSE IF n.ext = "html" THEN 1 ELSE 2]

ConcNext ==
    \/ ConcToHtml
    \/ ConcMkdir
    \/ ConcCreate
    \/ ConcWriteChunk
    \/ ConcClose
    \/ ConcReplace
    \/ ConcImport
    \/ ConcToImage
    \/ ConcSleep

ConcSpec == ConcInit /\ [][ConcNext]_vars


\* ---------------------------------------------------- claims, concurrency
Content(n) == IF dirents[n] <= 0 THEN <<>> ELSE inodes[dirents[n]]
Before == IF prev = Absent THEN <<>> ELSE Full("old")
BothDone == \A w \in Writers : callers[w].pc = "done"
Wrote(w, f) == IF f = "html" THEN callers[w].html = "written" ELSE callers[w].png = "written"
Holding == {w \in Writers : callers[w].name # NoName}

\* The temp files the two calls hold at the same moment are different files.
DistinctTemps ==
    \A a \in Holding : \A b \in Holding \ {a} :
        /\ callers[a].name # callers[b].name
        /\ callers[a].fd # callers[b].fd

\* A target is never a truncated or a mixed file.
NeverPartial ==
    \A f \in ConcFormats :
        Content(ConcTarget(f)) \in {Before} \cup {Full(w) : w \in Writers}

\* Once both calls are over, a target that some call wrote holds the complete
\* payload of one of the calls that wrote it; a target no call wrote is as before.
OnePayload ==
    BothDone =>
        \A f \in ConcFormats :
            LET by == {w \in Writers : Wrote(w, f)} IN
            Content(ConcTarget(f)) \in (IF by = {} THEN {Before} ELSE {Full(w) : w \in by})

\* C29: two save_figure_safe calls that run side by side with the same
\* out_dir and stem each write to a temp file of their own, a target is at no
\* moment truncated or a mixture of the two payloads, and once both calls are
\* over each target that was written holds exactly one call's complete payload.
C29_ConcurrentWritersOnePayload ==
    /\ DistinctTemps
    /\ NeverPartial
    /\ OnePayload

\* Both calls are over and wrote both files; the HTML is B's and the PNG is
\* A's, which only overlapping calls leave behind.
C29_Witness ==
    /\ BothDone
    /\ \A w \in Writers : \A f \in ConcFormats : Wrote(w, f)
    /\ Content(ConcTarget("html")) = Full("B")
    /\ Content(ConcTarget("png")) = Full("A")

====
